---- MODULE Spec2Model ----
(***************************************************************************)
(* A model of LSystems.py: the parsing functions, the context locator      *)
(* (findLeftContext, findRightContext), Rule (checkCondition,              *)
(* isApplicable, getReplacement) and LSystem.nextGeneration.               *)
(*                                                                         *)
(* Python values are represented as follows.                               *)
(*   str        a sequence of one-character strings, <<"F", "l">>          *)
(*   number     a float, the IEEE 754 binary64 number Python computes      *)
(*              with: [kind |-> "num", sign, man, exp] is sign * man *     *)
(*              2^exp, Inf(sign) and NaN are the infinities and nan, and   *)
(*              Frac(n, d) is the float nearest to n / d (True is 1.0,     *)
(*              False is 0.0); Raised stands for an exception raised       *)
(*              while a number was being computed                          *)
(*   Module     [symbol |-> str, param |-> sequence]                       *)
(*   None       NoneValue                                                  *)
(* Python indexes from 0 and TLA+ from 1: positions, start and i are the   *)
(* Python indices, and tree[k + 1] is Python's tree[k].                    *)
(***************************************************************************)
EXTENDS Integers, Sequences, FiniteSets, TLC

VARIABLES
    args,             \* history: the arguments the LSystem was constructed with
    word,             \* LSystem.word: the current word, a sequence of Modules
    productionRules,  \* LSystem.productionRules: the rule table, in declared order
    ignore,           \* LSystem.ignore: the value given as ignore
    definitions,      \* LSystem.definitions: a list of <<name, value>> pairs
    pc,               \* "idle", or "loop" while a nextGeneration call is in its for loop
    i,                \* nextGeneration: the loop index
    new_word,         \* nextGeneration: the word being built
    outcome,          \* how the last nextGeneration call ended: "none", "returned", "raised"
    calls,            \* the number of nextGeneration calls made so far
    wordAtCall,       \* history: the word as it was when the current call started
    steps,            \* history: one record for each position the current call handled
    query,            \* the last context lookup made directly: its arguments and result
    twin,             \* a second LSystem constructed from the same arguments: its
                      \* word, the number of its nextGeneration calls, how the last ended
    generator         \* the generator of the random module, shared by the whole process:
                      \* the number of random() calls made so far

vars == <<args, word, productionRules, ignore, definitions, pc, i, new_word, outcome,
          calls, wordAtCall, steps, query, twin, generator>>

(***************************************************************************)
(* Bounds of the model.                                                    *)
(***************************************************************************)
\* nextGeneration is called at most MaxCalls times on one LSystem
MaxCalls == 2
\* a nextGeneration call is started only on a word of at most MaxWordLen modules
MaxWordLen == 12
\* the context locator is queried on every tree of at most MaxTreeLen modules
MaxTreeLen == 5
\* the second LSystem rewrites words of at most MaxTwinWordLen modules
MaxTwinWordLen == 5

(***************************************************************************)
(* Python str.                                                             *)
(***************************************************************************)
\* s[a:b] for 0 <= a, an empty string when a >= b
Slice(s, a, b) ==
    LET hi == IF b > Len(s) THEN Len(s) ELSE b
    IN  IF a >= hi THEN << >> ELSE SubSeq(s, a + 1, hi)

\* the whitespace characters str.strip() removes: the blank, \t, \n, \r, \f,
\* the vertical tab U+000B, the separators U+001C, U+001D, U+001E and U+001F,
\* and U+0085, U+00A0 and U+1680 beyond ASCII (the other space characters of
\* Unicode, U+2000 and later, are in no string of the model)
Whitespace ==
    {" ", "\t", "\n", "\r", "\f", "", "", "", "", "",
     "", " ", " "}

RECURSIVE LStrip(_)
LStrip(s) == IF s # << >> /\ Head(s) \in Whitespace THEN LStrip(Tail(s)) ELSE s

RECURSIVE RStrip(_)
RStrip(s) ==
    IF s # << >> /\ s[Len(s)] \in Whitespace THEN RStrip(SubSeq(s, 1, Len(s) - 1)) ELSE s

\* s.strip()
Strip(s) == RStrip(LStrip(s))

\* the least k in from..Len(s) with s[k] in the set seps, or 0
RECURSIVE FindSep(_, _, _)
FindSep(s, seps, from) ==
    IF from > Len(s) THEN 0
    ELSE IF s[from] \in seps THEN from
    ELSE FindSep(s, seps, from + 1)

\* s.split(sep) for a one-character sep: never empty, and two adjacent
\* separators have an empty string between them
RECURSIVE Split(_, _)
Split(s, sep) ==
    LET k == FindSep(s, {sep}, 1)
    IN  IF k = 0 THEN <<s>>
        ELSE <<SubSeq(s, 1, k - 1)>> \o Split(SubSeq(s, k + 1, Len(s)), sep)

\* the first index from `from` on that is not in seps (Len(s) + 1 if none)
RECURSIVE SkipSeps(_, _, _)
SkipSeps(s, seps, from) ==
    IF from <= Len(s) /\ s[from] \in seps THEN SkipSeps(s, seps, from + 1) ELSE from

\* re.split("[c1c2]+", s): s is cut at every maximal run of characters of seps
RECURSIVE ReSplit(_, _)
ReSplit(s, seps) ==
    LET k == FindSep(s, seps, 1)
    IN  IF k = 0 THEN <<s>>
        ELSE <<SubSeq(s, 1, k - 1)>>
             \o ReSplit(SubSeq(s, SkipSeps(s, seps, k), Len(s)), seps)

\* sub in s, for two strings: sub occurs in s as a substring
IsSubstring(sub, s) ==
    \E k \in 0..(Len(s) - Len(sub)) : SubSeq(s, k + 1, k + Len(sub)) = sub

(***************************************************************************)
(* Naturals of any size.  TLC's integers have 32 bits and the mantissa of  *)
(* a float has 53, so a natural is the sequence of its digits in base      *)
(* 2^15, least significant first, without leading zero digit: << >> is 0   *)
(* and <<0, 0, 0, 128>> is 2^52.  Carries are found by looking back along  *)
(* the digits, so that no operation recurses over the length of a number.  *)
(***************************************************************************)
Base == 32768

\* the sequence f with every element computed, once
Tuple(f) == f \o << >>

Max(S) == CHOOSE k \in S : \A j \in S : j <= k

Digit(a, k) == IF 1 <= k /\ k <= Len(a) THEN a[k] ELSE 0

BNorm(a) ==
    IF a = << >> \/ a[Len(a)] # 0 THEN a
    ELSE SubSeq(a, 1, Max({0} \cup {k \in 1..Len(a) : a[k] # 0}))

\* the natural n, for n an integer of TLC
BNat(n) == BNorm(<<n % Base, (n \div Base) % Base, n \div (Base * Base)>>)

\* a + b: position k + 1 receives a carry when an earlier sum overflowed and
\* every sum in between is full
BAdd(a, b) ==
    LET n        == Max({Len(a), Len(b)})
        s        == Tuple([k \in 1..n |-> Digit(a, k) + Digit(b, k)])
        carry(k) == \E j \in 1..k : s[j] >= Base /\ \A l \in (j + 1)..k : s[l] = Base - 1
    IN  BNorm(Tuple([k \in 1..(n + 1) |->
                        (Digit(s, k) + (IF carry(k - 1) THEN 1 ELSE 0)) % Base]))

\* a - b for a >= b
BSub(a, b) ==
    LET t         == Tuple([k \in 1..Len(a) |-> a[k] - Digit(b, k)])
        borrow(k) == \E j \in 1..k : t[j] < 0 /\ \A l \in (j + 1)..k : t[l] = 0
    IN  BNorm(Tuple([k \in 1..Len(a) |->
                        (t[k] - (IF borrow(k - 1) THEN 1 ELSE 0) + Base) % Base]))

\* a < b
BLess(a, b) ==
    \/ Len(a) < Len(b)
    \/ /\ Len(a) = Len(b)
       /\ \E k \in 1..Len(a) : a[k] < b[k] /\ \A l \in (k + 1)..Len(a) : a[l] = b[l]

\* a * m for 0 <= m < Base
BMulSmall(a, m) ==
    LET p == Tuple([k \in 1..Len(a) |-> a[k] * m])
    IN  BAdd(Tuple([k \in 1..Len(a) |-> p[k] % Base]),
             Tuple([k \in 1..(Len(a) + 1) |-> IF k = 1 THEN 0 ELSE p[k - 1] \div Base]))

\* 2^n
BPow2(n) == [k \in 1..(n \div 15) |-> 0] \o <<2 ^ (n % 15)>>

\* a * 2^n, and a for n <= 0: a digit of the result is the low bits of one
\* digit of a above the high bits of the digit before it
BShift(a, n) ==
    IF a = << >> \/ n <= 0 THEN a
    ELSE [k \in 1..(n \div 15) |-> 0] \o
         BNorm(Tuple([k \in 1..(Len(a) + 1) |->
                        ((Digit(a, k) * 2 ^ (n % 15)) % Base)
                            + ((Digit(a, k - 1) * 2 ^ (n % 15)) \div Base)]))

\* a \div 2^n
BShiftRight(a, n) ==
    LET high == SubSeq(a, n \div 15 + 1, Len(a))
        s    == n % 15
    IN  BNorm(Tuple([k \in 1..Len(high) |->
                        high[k] \div 2 ^ s + (Digit(high, k + 1) % 2 ^ s) * 2 ^ (15 - s)]))

\* a % 2^n
BLowBits(a, n) ==
    LET whole == n \div 15
    IN  BNorm(Tuple([k \in 1..(IF Len(a) <= whole THEN Len(a) ELSE whole + 1) |->
                        IF k <= whole THEN a[k] ELSE a[k] % 2 ^ (n % 15)]))

\* a times the digits lo..hi of b, each at its place
RECURSIVE BMulRange(_, _, _, _)
BMulRange(a, b, lo, hi) ==
    IF lo = hi THEN [k \in 1..(lo - 1) |-> 0] \o BMulSmall(a, b[lo])
    ELSE LET mid == (lo + hi) \div 2
         IN  BAdd(BMulRange(a, b, lo, mid), BMulRange(a, b, mid + 1, hi))

BMul(a, b) == IF a = << >> \/ b = << >> THEN << >> ELSE BNorm(BMulRange(a, b, 1, Len(b)))

BSquare(a) == BMul(a, a)

\* 10^k
RECURSIVE BPow10(_)
BPow10(k) ==
    IF k <= 4 THEN BNat(10 ^ k)
    ELSE BMul(BSquare(BPow10(k \div 2)), IF k % 2 = 1 THEN <<10>> ELSE <<1>>)

\* the number of bits of a
BitLen(a) ==
    IF a = << >> THEN 0
    ELSE 15 * (Len(a) - 1) + (CHOOSE k \in 1..15 : 2 ^ (k - 1) <= a[Len(a)] /\ a[Len(a)] < 2 ^ k)

\* the largest digit m in lo..hi with m * b <= a
RECURSIVE QuotDigit(_, _, _, _)
QuotDigit(a, b, lo, hi) ==
    IF lo >= hi THEN lo
    ELSE LET mid == (lo + hi + 1) \div 2
         IN  IF BLess(a, BMulSmall(b, mid)) THEN QuotDigit(a, b, lo, mid - 1)
             ELSE QuotDigit(a, b, mid, hi)

\* the quotient and the remainder with the digit m of the quotient taken
\* from the running remainder part
BDivTake(b, quot, part, m) ==
    [quot |-> BNorm(<<m>> \o quot), rem |-> BSub(part, BMulSmall(b, m))]

\* one step of the long division by b: the digit low comes under the
\* remainder of the digits above it.  With top the leading digit of b and
\* lead the digits of the running remainder above the others of b, the digit
\* of the quotient lies between lead / (top + 1) and lead / top
BDivDigit(low, b, high) ==
    LET part == BNorm(<<low>> \o high.rem)
        top  == b[Len(b)]
        lead == Digit(part, Len(b) + 1) * Base + Digit(part, Len(b))
        most == IF lead \div top < Base THEN lead \div top ELSE Base - 1
    IN  BDivTake(b, high.quot, part, QuotDigit(part, b, lead \div (top + 1), most))

\* the quotient and the remainder of a by b, for b > 0: long division, one
\* digit of the quotient at a time
RECURSIVE BDivMod(_, _)
BDivMod(a, b) ==
    IF Len(a) < Len(b) THEN [quot |-> << >>, rem |-> a]
    ELSE BDivDigit(a[1], b, BDivMod(Tail(a), b))

(***************************************************************************)
(* Python float: an IEEE 754 binary64 number.  A finite float is           *)
(* sign * man * 2^exp with man a natural below 2^53, and 2^52 <= man       *)
(* unless exp = MinExp (zero and the subnormal numbers), so that a float   *)
(* has one record only; the zeros keep their sign.  Every operation gives  *)
(* the float nearest to the exact result, ties to the even mantissa.       *)
(***************************************************************************)
P52 == <<0, 0, 0, 128>>

P53 == <<0, 0, 0, 256>>

MinExp == -1074

MaxExp == 971

Float(sign, man, exp) == [kind |-> "num", sign |-> sign, man |-> man, exp |-> exp]

Zero(sign) == Float(sign, << >>, MinExp)

Inf(sign) == [kind |-> "inf", sign |-> sign, man |-> << >>, exp |-> MaxExp + 1]

NaN == [kind |-> "nan", sign |-> 1, man |-> << >>, exp |-> 0]

\* an exception raised in place of a number
Raised == [kind |-> "raised", sign |-> 1, man |-> << >>, exp |-> 0]

IsRaised(v) == v.kind = "raised"

IsZero(v) == v.kind = "num" /\ v.man = << >>

\* sign * man * 2^e for a mantissa of 53 bits at most, or 2^53 when rounding
\* carried into a 54th
Normal(sign, man, e) ==
    IF man = P53
    THEN (IF e + 1 > MaxExp THEN Inf(sign) ELSE Float(sign, P52, e + 1))
    ELSE IF e > MaxExp THEN Inf(sign)
    ELSE Float(sign, man, e)

\* sign * quot * 2^e for a mantissa quot that was cut below its last bit, and
\* is rounded up when up holds
Rounded(sign, quot, up, e) == Normal(sign, IF up THEN BAdd(quot, <<1>>) ELSE quot, e)

\* ties to the even mantissa: quot is rounded up when what was cut, low, is
\* above half of the last bit, or is half of it and quot is odd
RoundCut(sign, quot, low, half, e) ==
    Rounded(sign, quot, BLess(half, low) \/ (low = half /\ Digit(quot, 1) % 2 = 1), e)

\* the shift by normal bits, or as far as MinExp allows
ShiftFor(e, normal) == IF e - normal < MinExp THEN e - MinExp ELSE normal

\* the float nearest to sign * n * 2^e with n shifted up by shift bits, or cut
\* by -shift bits
RoundShift(sign, n, e, shift) ==
    IF shift >= 0 THEN Normal(sign, BShift(n, shift), e - shift)
    ELSE RoundCut(sign, BShiftRight(n, -shift), BLowBits(n, -shift), BPow2(-shift - 1),
                  e - shift)

\* the float nearest to sign * n * 2^e, for a natural n, ties to the even
\* mantissa: n is shifted to 53 bits, or as far as MinExp allows
RoundNat(sign, n, e) ==
    IF n = << >> THEN Zero(sign)
    ELSE RoundShift(sign, n, e, ShiftFor(e, 53 - BitLen(n)))

\* the quotient dm.quot of a division by den is cut where its remainder
\* begins: twice the remainder is compared with den
RoundDivided(sign, den, dm, e) == RoundCut(sign, dm.quot, BShift(dm.rem, 1), den, e)

\* the float nearest to sign * (num / den) * 2^e for a quotient of 53 bits at
\* most; both are scaled for the leading digit of den to have all its bits
RoundQuotOf(sign, num, den, e) ==
    LET fill == 15 * Len(den) - BitLen(den)
    IN  RoundDivided(sign, BShift(den, fill), BDivMod(BShift(num, fill), BShift(den, fill)), e)

\* the float nearest to sign * (n / d) * 2^e, for naturals n > 0 and d > 0:
\* n / d lies between 2^(t-1) and 2^(t+1), the shift brings it between 2^52
\* and 2^53 unless the exponent would pass MinExp
RoundQuot(sign, n, d, e) ==
    LET t     == BitLen(n) - BitLen(d)
        shift == ShiftFor(e, IF BLess(BShift(n, -t), BShift(d, t)) THEN 53 - t ELSE 52 - t)
    IN  RoundQuotOf(sign, BShift(n, shift), BShift(d, -shift), e - shift)

Round(sign, n, d, e) ==
    IF n = << >> THEN Zero(sign)
    ELSE IF d = <<1>> THEN RoundNat(sign, n, e)
    ELSE RoundQuot(sign, n, d, e)

Abs(a) == IF a < 0 THEN -a ELSE a

\* the float n / d of two integers, d > 0: Frac(33, 50) is 0.66
Frac(n, d) == Round(IF n < 0 THEN -1 ELSE 1, BNat(Abs(n)), BNat(d), 0)

Neg(a) == IF a.kind \in {"num", "inf"} THEN [a EXCEPT !.sign = -a.sign] ELSE a

\* the bits kept below the larger operand of a sum: what lies further down
\* is less than a quarter of its last bit and only tells the sum is inexact
Guard == 64

\* the mantissa of a in units of 2^e; one unit stands for a nonzero a below it
Aligned(a, e) ==
    IF a.exp >= e THEN BShift(a.man, a.exp - e)
    ELSE IF a.man = << >> THEN << >> ELSE <<1>>

\* x * 2^e with the sign sa plus y * 2^e with the sign sb
AddAligned(sa, x, sb, y, e) ==
    IF sa # sb /\ x = y THEN Zero(1)
    ELSE RoundNat(IF sa = sb \/ BLess(y, x) THEN sa ELSE sb,
                  IF sa = sb THEN BAdd(x, y)
                  ELSE IF BLess(y, x) THEN BSub(x, y) ELSE BSub(y, x),
                  e)

\* a + b
Add(a, b) ==
    IF a.kind = "nan" \/ b.kind = "nan" THEN NaN
    ELSE IF a.kind = "inf" /\ b.kind = "inf" THEN (IF a.sign = b.sign THEN a ELSE NaN)
    ELSE IF a.kind = "inf" THEN a
    ELSE IF b.kind = "inf" THEN b
    ELSE LET hi == IF a.exp < b.exp THEN b.exp ELSE a.exp
             lo == IF a.exp < b.exp THEN a.exp ELSE b.exp
             e  == IF hi - lo > Guard THEN hi - Guard ELSE lo
         IN  AddAligned(a.sign, Aligned(a, e), b.sign, Aligned(b, e), e)

Sub(a, b) == Add(a, Neg(b))

Mul(a, b) ==
    IF a.kind = "nan" \/ b.kind = "nan" THEN NaN
    ELSE IF a.kind = "inf" \/ b.kind = "inf"
    THEN (IF IsZero(a) \/ IsZero(b) THEN NaN ELSE Inf(a.sign * b.sign))
    ELSE RoundNat(a.sign * b.sign, BMul(a.man, b.man), a.exp + b.exp)

\* a / b: ZeroDivisionError when b is 0
Div(a, b) ==
    IF IsZero(b) THEN Raised
    ELSE IF a.kind = "nan" \/ b.kind = "nan" THEN NaN
    ELSE IF a.kind = "inf" THEN (IF b.kind = "inf" THEN NaN ELSE Inf(a.sign * b.sign))
    ELSE IF b.kind = "inf" THEN Zero(a.sign * b.sign)
    ELSE Round(a.sign * b.sign, a.man, b.man, a.exp - b.exp)

\* |a| < |b| for two floats that are no nan
MagLess(a, b) == a.exp < b.exp \/ (a.exp = b.exp /\ BLess(a.man, b.man))

\* a < b
Less(a, b) ==
    IF a.kind = "nan" \/ b.kind = "nan" THEN FALSE
    ELSE IF IsZero(a) /\ IsZero(b) THEN FALSE
    ELSE IF a.sign # b.sign THEN a.sign < b.sign
    ELSE IF a.sign = 1 THEN MagLess(a, b)
    ELSE MagLess(b, a)

\* a == b: nan equals nothing, and 0.0 == -0.0
Equal(a, b) ==
    /\ a.kind # "nan" /\ b.kind # "nan"
    /\ a = b \/ (IsZero(a) /\ IsZero(b))

\* a Python bool as a number
Bool(b) == IF b THEN Float(1, P52, -52) ELSE Zero(1)

\* the truth value Python's `if` and `and` give a number
Truthy(v) == ~IsZero(v)

Digits == {"0", "1", "2", "3", "4", "5", "6", "7", "8", "9"}

DigitValue(c) ==
    CASE c = "0" -> 0 [] c = "1" -> 1 [] c = "2" -> 2 [] c = "3" -> 3 [] c = "4" -> 4
      [] c = "5" -> 5 [] c = "6" -> 6 [] c = "7" -> 7 [] c = "8" -> 8 [] c = "9" -> 9

\* the integer written by decimal digits, for an integer below 2^31
RECURSIVE SmallValue(_)
SmallValue(ds) ==
    IF ds = << >> THEN 0
    ELSE 10 * SmallValue(SubSeq(ds, 1, Len(ds) - 1)) + DigitValue(ds[Len(ds)])

\* the natural written by a sequence of decimal digits
RECURSIVE DigitsValue(_)
DigitsValue(ds) ==
    IF Len(ds) <= 4 THEN BNat(SmallValue(ds))
    ELSE LET half == Len(ds) \div 2
         IN  BAdd(BMul(DigitsValue(SubSeq(ds, 1, half)), BPow10(Len(ds) - half)),
                  DigitsValue(SubSeq(ds, half + 1, Len(ds))))

\* a letter without its case, for the letters of "infinity", "nan" and the exponent
LowerCase(c) ==
    CASE c = "I" -> "i" [] c = "N" -> "n" [] c = "F" -> "f" [] c = "T" -> "t"
      [] c = "Y" -> "y" [] c = "A" -> "a" [] c = "E" -> "e" [] OTHER -> c

Lower(s) == Tuple([k \in 1..Len(s) |-> LowerCase(s[k])])

\* digits, with single underscores between two digits only
DigitGroup(s) ==
    /\ s # << >>
    /\ \A k \in 1..Len(s) : s[k] \in Digits \cup {"_"}
    /\ s[1] # "_" /\ s[Len(s)] # "_"
    /\ \A k \in 1..(Len(s) - 1) : ~(s[k] = "_" /\ s[k + 1] = "_")

RECURSIVE DropUnderscores(_)
DropUnderscores(s) ==
    IF s = << >> THEN << >>
    ELSE IF Head(s) = "_" THEN DropUnderscores(Tail(s))
    ELSE <<Head(s)>> \o DropUnderscores(Tail(s))

RECURSIVE DropZeros(_)
DropZeros(s) == IF s # << >> /\ Head(s) = "0" THEN DropZeros(Tail(s)) ELSE s

\* the text before the first c of s, and s when it holds none
Before(s, c) ==
    IF FindSep(s, {c}, 1) = 0 THEN s ELSE SubSeq(s, 1, FindSep(s, {c}, 1) - 1)

\* the text after the first c of s
After(s, c) ==
    IF FindSep(s, {c}, 1) = 0 THEN << >> ELSE SubSeq(s, FindSep(s, {c}, 1) + 1, Len(s))

\* sign * ds * 10^(esign * es - nfrac) for the digits ds without leading
\* zeros, the digits es of the exponent and the nfrac digits behind the
\* point.  The conversion reads the exponent up to 1100000000, which is beyond
\* what any number of digits takes back, and counts the zeros that end ds
\* into the exponent: nd digits remain, times 10^k.  What lies beyond the
\* largest and the smallest float is not computed
ScaledFloat(sign, ds, esign, es, nfrac) ==
    LET nd == CHOOSE n \in 0..Len(ds) :
                  /\ n = 0 \/ ds[n] # "0"
                  /\ \A j \in (n + 1)..Len(ds) : ds[j] = "0"
        k  == esign * (IF BLess(DigitsValue(es), BNat(1100000000))
                       THEN SmallValue(es) ELSE 1100000000)
              - nfrac + (Len(ds) - nd)
    IN  IF nd = 0 THEN Zero(sign)
        ELSE IF nd + k > 309 THEN Inf(sign)
        ELSE IF nd + k < -323 THEN Zero(sign)
        ELSE IF k >= 0
        THEN RoundNat(sign, BMul(DigitsValue(SubSeq(ds, 1, nd)), BPow10(k)), 0)
        ELSE Round(sign, DigitsValue(SubSeq(ds, 1, nd)), BPow10(-k), 0)

\* a decimal literal: the digits int before the point, frac behind it, and
\* the text expo of the exponent when the literal has one
DecimalFloat(sign, int, frac, hasExp, expo) ==
    LET esign == IF expo # << >> /\ Head(expo) = "-" THEN -1 ELSE 1
        edig  == IF expo # << >> /\ Head(expo) \in {"+", "-"} THEN Tail(expo) ELSE expo
    IN  IF \/ int \o frac = << >>
           \/ int # << >> /\ ~DigitGroup(int)
           \/ frac # << >> /\ ~DigitGroup(frac)
           \/ hasExp /\ ~DigitGroup(edig)
        THEN Raised
        ELSE ScaledFloat(sign, DropZeros(DropUnderscores(int) \o DropUnderscores(frac)),
                         esign, DropZeros(DropUnderscores(edig)),
                         Len(DropUnderscores(frac)))

\* the text u behind the sign, in lower case
UnsignedFloat(sign, u) ==
    IF u \in {<<"i", "n", "f">>, <<"i", "n", "f", "i", "n", "i", "t", "y">>} THEN Inf(sign)
    ELSE IF u = <<"n", "a", "n">> THEN NaN
    ELSE DecimalFloat(sign, Before(Before(u, "e"), "."), After(Before(u, "e"), "."),
                      FindSep(u, {"e"}, 1) # 0, After(u, "e"))

\* float(s) of the stripped text t
SignedFloat(t) ==
    UnsignedFloat(IF t # << >> /\ Head(t) = "-" THEN -1 ELSE 1,
                  Lower(IF t # << >> /\ Head(t) \in {"+", "-"} THEN Tail(t) ELSE t))

\* the decimal digits of the scripts beyond ASCII that a string of the model
\* holds, each row the digits 0 to 9 of one script
WideDigits ==
    <<
        <<"۰", "۱", "۲", "۳", "۴", "۵", "۶", "۷", "۸", "۹">>,
        <<"߀", "߁", "߂", "߃", "߄", "߅", "߆", "߇", "߈", "߉">>,
        <<"০", "১", "২", "৩", "৪", "৫", "৬", "৭", "৮", "৯">>,
        <<"૦", "૧", "૨", "૩", "૪", "૫", "૬", "૭", "૮", "૯">>,
        <<"௦", "௧", "௨", "௩", "௪", "௫", "௬", "௭", "௮", "௯">>,
        <<"೦", "೧", "೨", "೩", "೪", "೫", "೬", "೭", "೮", "೯">>,
        <<"෦", "෧", "෨", "෩", "෪", "෫", "෬", "෭", "෮", "෯">>,
        <<"໐", "໑", "໒", "໓", "໔", "໕", "໖", "໗", "໘", "໙">>,
        <<"႐", "႑", "႒", "႓", "႔", "႕", "႖", "႗", "႘", "႙">>,
        <<"០", "១", "២", "៣", "៤", "៥", "៦", "៧", "៨", "៩">>,
        <<"᧐", "᧑", "᧒", "᧓", "᧔", "᧕", "᧖", "᧗", "᧘", "᧙">>,
        <<"᪀", "᪁", "᪂", "᪃", "᪄", "᪅", "᪆", "᪇", "᪈", "᪉">>,
        <<"᪐", "᪑", "᪒", "᪓", "᪔", "᪕", "᪖", "᪗", "᪘", "᪙">>,
        <<"᮰", "᮱", "᮲", "᮳", "᮴", "᮵", "᮶", "᮷", "᮸", "᮹">>,
        <<"꣐", "꣑", "꣒", "꣓", "꣔", "꣕", "꣖", "꣗", "꣘", "꣙">>,
        <<"꧐", "꧑", "꧒", "꧓", "꧔", "꧕", "꧖", "꧗", "꧘", "꧙">>,
        <<"꧰", "꧱", "꧲", "꧳", "꧴", "꧵", "꧶", "꧷", "꧸", "꧹">>,
        <<"꯰", "꯱", "꯲", "꯳", "꯴", "꯵", "꯶", "꯷", "꯸", "꯹">>
    >>

\* the text float() converts: whitespace beyond ASCII is read as a blank and
\* a decimal digit of another script as the ASCII digit of its value
Transformed(s) ==
    Tuple([k \in 1..Len(s) |->
              IF s[k] \in {"", " ", " "} THEN " "
              ELSE IF \E r \in 1..Len(WideDigits) : \E d \in 1..10 : WideDigits[r][d] = s[k]
              THEN <<"0", "1", "2", "3", "4", "5", "6", "7", "8", "9">>
                       [CHOOSE d \in 1..10 :
                            \E r \in 1..Len(WideDigits) : WideDigits[r][d] = s[k]]
              ELSE s[k]])

\* float(s): surrounding whitespace, a sign, "inf", "infinity" or "nan" in any
\* case, or a decimal literal with an optional point and exponent; ValueError
\* (Raised) for any other text.  Of the characters str.strip() removes,
\* float() keeps the separators U+001C to U+001F, which are part of no number
ToFloat(s) ==
    IF \E k \in 1..Len(s) : s[k] \in {"", "", "", ""} THEN Raised
    ELSE SignedFloat(Strip(Transformed(s)))

(***************************************************************************)
(* Expressions: py_expression_eval's Parser.parse and Expression.evaluate, *)
(* for the expressions made of decimal literals, names and the binary      *)
(* operators + - * / == != < <= > >= and or (no parentheses, functions or  *)
(* unary minus), with the precedence of section 4.A of the specification.  *)
(* An expression is [op |-> "num", val |-> number],                        *)
(* [op |-> "var", name |-> str] or [op |-> operator, l |-> e1, r |-> e2].  *)
(* For a text that is no such expression parse raises ParseError and       *)
(* returns no expression: [op |-> "error"] stands for that.                *)
(***************************************************************************)
Letters ==
    {"a", "b", "c", "d", "e", "f", "g", "h", "i", "j", "k", "l", "m", "n", "o",
     "p", "q", "r", "s", "t", "u", "v", "w", "x", "y", "z", "A", "B", "C", "D",
     "E", "F", "G", "H", "I", "J", "K", "L", "M", "N", "O", "P", "Q", "R", "S",
     "T", "U", "V", "W", "X", "Y", "Z", "_"}

TwoCharOps == {<<"=", "=">>, <<"!", "=">>, <<"<", "=">>, <<">", "=">>}

OneCharOps == {"+", "-", "*", "/", "<", ">"}

WordOps == {<<"a", "n", "d">>, <<"o", "r">>}

\* the tokens of an expression text, each [t |-> "num" | "var" | "op" | "bad", v |-> str]
RECURSIVE Tokens(_)
Tokens(s) ==
    IF s = << >> THEN << >>
    ELSE IF Head(s) = " " THEN Tokens(Tail(s))
    ELSE IF Head(s) \in Digits \cup {"."} THEN
        LET e == SkipSeps(s, Digits \cup {"."}, 1)
        IN  <<[t |-> "num", v |-> SubSeq(s, 1, e - 1)]>> \o Tokens(SubSeq(s, e, Len(s)))
    ELSE IF Head(s) \in Letters THEN
        LET e == SkipSeps(s, Letters \cup Digits, 1)
            w == SubSeq(s, 1, e - 1)
        IN  <<[t |-> IF w \in WordOps THEN "op" ELSE "var", v |-> w]>>
            \o Tokens(SubSeq(s, e, Len(s)))
    ELSE IF Len(s) >= 2 /\ SubSeq(s, 1, 2) \in TwoCharOps THEN
        <<[t |-> "op", v |-> SubSeq(s, 1, 2)]>> \o Tokens(SubSeq(s, 3, Len(s)))
    ELSE <<[t |-> IF Head(s) \in OneCharOps THEN "op" ELSE "bad", v |-> <<Head(s)>>]>>
         \o Tokens(Tail(s))

OpName(v) ==
    CASE v = <<"+">> -> "+" [] v = <<"-">> -> "-" [] v = <<"*">> -> "*"
      [] v = <<"/">> -> "/" [] v = <<"<">> -> "<" [] v = <<">">> -> ">"
      [] v = <<"=", "=">> -> "==" [] v = <<"!", "=">> -> "!="
      [] v = <<"<", "=">> -> "<=" [] v = <<">", "=">> -> ">="
      [] v = <<"a", "n", "d">> -> "and" [] v = <<"o", "r">> -> "or"

Precedence(o) ==
    CASE o = "or" -> 0 [] o = "and" -> 1
      [] o \in {"==", "!=", "<", "<=", ">", ">="} -> 3
      [] o \in {"+", "-"} -> 4
      [] o \in {"*", "/"} -> 5

\* the expression of a number token, val being what float() makes of its text
Literal(val) == IF IsRaised(val) THEN [op |-> "error"] ELSE [op |-> "num", val |-> val]

\* the expression of a token list: it is split at the last operator of the
\* lowest precedence, so operators of one precedence associate to the left
RECURSIVE ParseTokens(_)
ParseTokens(toks) ==
    LET ops == {k \in 1..Len(toks) : toks[k].t = "op"}
    IN  IF Len(toks) = 1 /\ toks[1].t = "num" THEN Literal(ToFloat(toks[1].v))
        ELSE IF Len(toks) = 1 /\ toks[1].t = "var"
        THEN [op |-> "var", name |-> toks[1].v]
        ELSE IF Len(toks) < 3 \/ ops = {} \/ \E k \in 1..Len(toks) : toks[k].t = "bad"
        THEN [op |-> "error"]
        ELSE LET low == CHOOSE p \in {Precedence(OpName(toks[k].v)) : k \in ops} :
                            \A k \in ops : p <= Precedence(OpName(toks[k].v))
                 at  == CHOOSE k \in ops :
                            /\ Precedence(OpName(toks[k].v)) = low
                            /\ \A j \in ops : Precedence(OpName(toks[j].v)) = low => j <= k
                 l   == ParseTokens(SubSeq(toks, 1, at - 1))
                 r   == ParseTokens(SubSeq(toks, at + 1, Len(toks)))
             IN  IF l.op = "error" \/ r.op = "error" THEN [op |-> "error"]
                 ELSE [op |-> OpName(toks[at].v), l |-> l, r |-> r]

\* Parser().parse(text)
Parse(text) == ParseTokens(Tokens(text))

\* dict(zip(keys, values)): the pairs up to the shorter of the two lists
Dict(keys, values) ==
    LET n == IF Len(keys) < Len(values) THEN Len(keys) ELSE Len(values)
    IN  [keys |-> SubSeq(keys, 1, n), values |-> SubSeq(values, 1, n)]

\* name in d
Bound(d, name) == \E k \in 1..Len(d.keys) : d.keys[k] = name

\* d[name]: of two pairs with one key, dict() keeps the later one
Lookup(d, name) ==
    LET k == CHOOSE k \in 1..Len(d.keys) :
                 /\ d.keys[k] = name
                 /\ \A j \in 1..Len(d.keys) : d.keys[j] = name => j <= k
    IN  d.values[k]

ApplyOp(o, a, b) ==
    CASE o = "+" -> Add(a, b)
      [] o = "-" -> Sub(a, b)
      [] o = "*" -> Mul(a, b)
      [] o = "/" -> Div(a, b)
      [] o = "==" -> Bool(Equal(a, b))
      [] o = "!=" -> Bool(~Equal(a, b))
      [] o = "<" -> Bool(Less(a, b))
      [] o = "<=" -> Bool(Less(a, b) \/ Equal(a, b))
      [] o = ">" -> Bool(Less(b, a))
      [] o = ">=" -> Bool(Less(b, a) \/ Equal(a, b))
      [] o = "and" -> IF Truthy(a) THEN b ELSE a
      [] o = "or" -> IF Truthy(a) THEN a ELSE b

\* expression.evaluate(d): Raised for a name that d does not bind and for a
\* division by zero
RECURSIVE Evaluate(_, _)
Evaluate(e, d) ==
    IF e.op = "num" THEN e.val
    ELSE IF e.op = "var" THEN (IF Bound(d, e.name) THEN Lookup(d, e.name) ELSE Raised)
    ELSE LET a == Evaluate(e.l, d)
             b == Evaluate(e.r, d)
         IN  IF IsRaised(a) \/ IsRaised(b) THEN Raised ELSE ApplyOp(e.op, a, b)

(***************************************************************************)
(* Module.                                                                 *)
(***************************************************************************)
Module(symbol, param) == [symbol |-> symbol, param |-> param]

emptyModule == Module(<< >>, << >>)

\* Python's None, which is no Module: it has neither symbol nor param
NoneValue == [none |-> TRUE]

(***************************************************************************)
(* Parsing functions.                                                      *)
(***************************************************************************)
\* the three stringTo...Mod functions read the symbol up to the first "(" and
\* cut the parameters out of string[i:len(string) - 1] at the commas
SymbolOf(string) ==
    LET s == Strip(string)
        k == FindSep(s, {"("}, 1)
    IN  IF k = 0 THEN s ELSE SubSeq(s, 1, k - 1)

ParamTexts(string) ==
    LET s == Strip(string)
        k == FindSep(s, {"("}, 1)
    IN  IF k = 0 THEN << >> ELSE Split(Slice(s, k, Len(s) - 1), ",")

stringToMod(string) ==
    LET params == ParamTexts(string)
    IN  Module(SymbolOf(string), [j \in 1..Len(params) |-> ToFloat(Strip(params[j]))])

stringToSymMod(string) ==
    LET params == ParamTexts(string)
    IN  Module(SymbolOf(string), [j \in 1..Len(params) |-> Strip(params[j])])

stringToSymModWithExpr(string) ==
    LET params == ParamTexts(string)
    IN  Module(SymbolOf(string), [j \in 1..Len(params) |-> Parse(Strip(params[j]))])

\* Rule.__init__: the rule record
Rule(ruleType, left_context, predecessor, right_context, condition, successor, probs) ==
    [ruleType          |-> ruleType,
     predecessorSymbol |-> predecessor.symbol,
     symParam          |-> predecessor.param,
     successor         |-> successor,
     left_context      |-> left_context,
     right_context     |-> right_context,
     isStochastic      |-> probs # << >>,
     probs             |-> probs,
     condition         |-> IF condition # << >> THEN Parse(condition) ELSE condition]

\* rule_type -1 stands for the branches that return no (rule_type, predecessor) pair
stringToPredecessor(string) ==
    LET splitted == ReSplit(string, {"<", ">"})
    IN  IF Len(splitted) = 3 THEN
            [rule_type |-> 3,
             predecessor |-> <<stringToSymMod(splitted[1]), stringToSymMod(splitted[2]),
                               stringToSymMod(splitted[3])>>]
        ELSE IF Len(splitted) = 2 /\ FindSep(string, {"<"}, 1) # 0 THEN
            [rule_type |-> 1,
             predecessor |-> <<stringToSymMod(splitted[1]), stringToSymMod(splitted[2]),
                               emptyModule>>]
        ELSE IF Len(splitted) = 2 THEN
            [rule_type |-> 2,
             predecessor |-> <<emptyModule, stringToSymMod(splitted[1]),
                               stringToSymMod(splitted[2])>>]
        ELSE IF Len(splitted) = 1 THEN
            [rule_type |-> 0,
             predecessor |-> <<emptyModule, stringToSymMod(splitted[1]), emptyModule>>]
        ELSE [rule_type |-> -1, predecessor |-> << >>]

\* the modules of a successor sequence cut at runs of blanks, as split()
\* without a separator cuts: an empty text has no module
SuccessorMods_no_empty(string) ==
    LET splitted == SelectSeq(Split(string, " "), LAMBDA piece : Strip(piece) # << >>)
    IN  [j \in 1..Len(splitted) |-> stringToSymModWithExpr(Strip(splitted[j]))]

\* the modules of one successor sequence
SuccessorMods(string) ==
    LET splitted == Split(string, " ")
    IN  [j \in 1..Len(splitted) |-> stringToSymModWithExpr(Strip(splitted[j]))]

\* parser.parse raised for a parameter of one of the modules mods
Malformed(mods) ==
    \E k \in 1..Len(mods) : \E j \in 1..Len(mods[k].param) : mods[k].param[j].op = "error"

\* the result of stringToSuccessor for the pieces probsAndRules of a
\* stochastic rule, probs being what float() made of the pieces 0, 2, 4, ...:
\* the loop parses the alternatives in order, so that a malformed expression
\* in one of them raises before rules[i] does for a probability without one
StochasticSuccessor(probsAndRules, probs) ==
    IF \E j \in 1..Len(probs) : IsRaised(probs[j])
    THEN [raised |-> "ValueError", probs |-> << >>, successor |-> << >>]
    ELSE IF \E j \in 1..(Len(probsAndRules) \div 2) :
                Malformed(SuccessorMods(probsAndRules[2 * j]))
    THEN [raised |-> "ParseError", probs |-> << >>, successor |-> << >>]
    ELSE IF Len(probsAndRules) \div 2 < Len(probs)
    THEN [raised |-> "IndexError", probs |-> << >>, successor |-> << >>]
    ELSE [raised |-> "", probs |-> probs,
          successor |-> [j \in 1..Len(probs) |-> SuccessorMods(probsAndRules[2 * j])]]

\* stringToSuccessor with a loop that stops one module short: the last module
\* of a successor sequence is not parsed
stringToSuccessor_one_short(string) ==
    LET short(mods) == SubSeq(mods, 1, Len(mods) - 1)
    IN  IF FindSep(string, {";"}, 1) = 0 THEN
            [raised |-> "", probs |-> << >>, successor |-> short(SuccessorMods(string))]
        ELSE
            LET probsAndRules == Split(string, ";")
                nProbs == (Len(probsAndRules) + 1) \div 2
                probs  == [j \in 1..nProbs |-> ToFloat(probsAndRules[2 * j - 1])]
            IN  IF \E j \in 1..nProbs : IsRaised(probs[j])
                THEN [raised |-> "ValueError", probs |-> << >>, successor |-> << >>]
                ELSE IF Len(probsAndRules) \div 2 < nProbs
                THEN [raised |-> "IndexError", probs |-> << >>, successor |-> << >>]
                ELSE [raised |-> "", probs |-> probs,
                      successor |-> [j \in 1..nProbs |->
                                       short(SuccessorMods(probsAndRules[2 * j]))]]

\* for a stochastic rule the probabilities are the pieces 0, 2, 4, ... between
\* the semicolons and the successor sequences the pieces 1, 3, 5, ...; the
\* probabilities are stored as float() reads them, none is compared with 0
\* and their sum is not computed.  float() raises ValueError for a piece that
\* is no number, before any successor is read; a string with an odd number of
\* pieces has one probability more than alternatives, and rules[i] raises
\* IndexError for the last one; stringToSymModWithExpr raises ParseError for a
\* module with a malformed expression
stringToSuccessor(string) ==
    IF FindSep(string, {";"}, 1) = 0 THEN
        IF Malformed(SuccessorMods(string))
        THEN [raised |-> "ParseError", probs |-> << >>, successor |-> << >>]
        ELSE [raised |-> "", probs |-> << >>, successor |-> SuccessorMods(string)]
    ELSE StochasticSuccessor(Split(string, ";"),
                             Tuple([j \in 1..((Len(Split(string, ";")) + 1) \div 2) |->
                                       ToFloat(Split(string, ";")[2 * j - 1])]))

stringToAxiom(string) ==
    LET splitted == Split(string, " ")
    IN  [j \in 1..Len(splitted) |-> stringToMod(Strip(splitted[j]))]

\* stringToRule once the string is cut into productionRule: pred is what
\* stringToPredecessor returns for its first piece and succ what
\* stringToSuccessor returns for its last, which is read after pred is unpacked
RuleFrom(productionRule, pred, succ) ==
    IF pred.rule_type = -1 THEN [raised |-> "TypeError"]
    ELSE IF Len(productionRule) = 1 THEN [raised |-> "IndexError"]
    ELSE IF succ.raised # "" THEN [raised |-> succ.raised]
    ELSE IF /\ Len(productionRule) > 2
            /\ productionRule[2] # << >>
            /\ Parse(productionRule[2]).op = "error"
    THEN [raised |-> "ParseError"]
    ELSE Rule(pred.rule_type, pred.predecessor[1], pred.predecessor[2],
              pred.predecessor[3],
              IF Len(productionRule) = 2 THEN << >> ELSE productionRule[2],
              succ.successor, succ.probs)

\* the result is the Rule, or [raised |-> the exception] when none is made:
\* TypeError when stringToPredecessor returns no pair to unpack, IndexError
\* when the string has neither "?" nor ":", what stringToSuccessor raises, and
\* ParseError when Rule.__init__ parses a malformed condition
stringToRule(string) ==
    RuleFrom(ReSplit(string, {"?", ":"}),
             stringToPredecessor(ReSplit(string, {"?", ":"})[1]),
             stringToSuccessor(ReSplit(string, {"?", ":"})
                                   [IF Len(ReSplit(string, {"?", ":"})) = 2 THEN 2 ELSE 3]))

(***************************************************************************)
(* Find context.                                                           *)
(***************************************************************************)
\* an ignore value is a Python str or a Python list of str: v holds the
\* elements a for loop over it would yield, each a str (the one-character
\* strings of a str, the elements of a list)
IgnoreStr(chars) == [str |-> TRUE, v |-> [k \in 1..Len(chars) |-> <<chars[k]>>]]

IgnoreList(items) == [str |-> FALSE, v |-> items]

\* symbol in ignore: a substring test on a str, a membership test on a list
In(symbol, ign) ==
    IF ign.str THEN IsSubstring(symbol, [k \in 1..Len(ign.v) |-> ign.v[k][1]])
    ELSE \E k \in 1..Len(ign.v) : ign.v[k] = symbol

\* what a scan of the context locator returns: tree[index] ("module"),
\* emptyModule() or, for a function that ends without a return statement, None
Returns(what, index) == [returns |-> what, index |-> index]

ContextOf(tree, ret) ==
    IF ret.returns = "module" THEN tree[ret.index + 1]
    ELSE IF ret.returns = "emptyModule" THEN emptyModule
    ELSE NoneValue

\* the left scan that passes over "]" without counting it
RECURSIVE LeftScan_no_closing(_, _, _, _, _, _)
LeftScan_no_closing(tree, currentIndex, ign, nrOfClosingBrs, nrOfOpeningBrs, firstPass) ==
    IF currentIndex < 0 THEN Returns("emptyModule", -1)
    ELSE IF In(tree[currentIndex + 1].symbol, ign) THEN
        LeftScan_no_closing(tree, currentIndex - 1, ign, nrOfClosingBrs, nrOfOpeningBrs,
                            firstPass)
    ELSE IF tree[currentIndex + 1].symbol = <<"[">> THEN
        LeftScan_no_closing(tree, currentIndex - 1, ign, nrOfClosingBrs,
                            IF firstPass THEN nrOfOpeningBrs ELSE nrOfOpeningBrs + 1, FALSE)
    ELSE IF tree[currentIndex + 1].symbol = <<"]">> THEN
        LeftScan_no_closing(tree, currentIndex - 1, ign, nrOfClosingBrs, nrOfOpeningBrs,
                            FALSE)
    ELSE IF nrOfClosingBrs = nrOfOpeningBrs THEN Returns("module", currentIndex)
    ELSE LeftScan_no_closing(tree, currentIndex - 1, ign, nrOfClosingBrs, nrOfOpeningBrs,
                             FALSE)

\* the for loop of findLeftContext from currentIndex down to 0, and the
\* return(emptyModule()) after it
RECURSIVE LeftScan(_, _, _, _, _, _)
LeftScan(tree, currentIndex, ign, nrOfClosingBrs, nrOfOpeningBrs, firstPass) ==
    IF currentIndex < 0 THEN Returns("emptyModule", -1)
    ELSE IF In(tree[currentIndex + 1].symbol, ign) THEN
        LeftScan(tree, currentIndex - 1, ign, nrOfClosingBrs, nrOfOpeningBrs, firstPass)
    ELSE IF tree[currentIndex + 1].symbol = <<"[">> THEN
        LeftScan(tree, currentIndex - 1, ign, nrOfClosingBrs,
                 IF firstPass THEN nrOfOpeningBrs ELSE nrOfOpeningBrs + 1, FALSE)
    ELSE IF tree[currentIndex + 1].symbol = <<"]">> THEN
        LeftScan(tree, currentIndex - 1, ign, nrOfClosingBrs + 1, nrOfOpeningBrs, FALSE)
    ELSE IF nrOfClosingBrs = nrOfOpeningBrs THEN Returns("module", currentIndex)
    ELSE LeftScan(tree, currentIndex - 1, ign, nrOfClosingBrs, nrOfOpeningBrs, FALSE)

\* where findLeftContext(tree, start, ignore) returns
LeftReturn(tree, start, ign) == LeftScan(tree, start - 1, ign, 0, 0, TRUE)

findLeftContext(tree, start, ign) == ContextOf(tree, LeftReturn(tree, start, ign))

\* the for loop of findRightContext from currentIndex up to len(tree) - 1; the
\* function ends without a return statement when the loop runs out, and so
\* returns None
RECURSIVE RightScan(_, _, _, _, _, _)
RightScan(tree, currentIndex, ign, nrOfClosingBrs, nrOfOpeningBrs, firstPass) ==
    IF currentIndex >= Len(tree) THEN Returns("None", -1)
    ELSE IF In(tree[currentIndex + 1].symbol, ign) THEN
        RightScan(tree, currentIndex + 1, ign, nrOfClosingBrs, nrOfOpeningBrs, firstPass)
    ELSE IF tree[currentIndex + 1].symbol = <<"]">> THEN
        IF firstPass THEN Returns("emptyModule", -1)
        ELSE RightScan(tree, currentIndex + 1, ign, nrOfClosingBrs + 1, nrOfOpeningBrs, FALSE)
    ELSE IF tree[currentIndex + 1].symbol = <<"[">> THEN
        RightScan(tree, currentIndex + 1, ign, nrOfClosingBrs, nrOfClosingBrs + 1, FALSE)
    ELSE IF nrOfOpeningBrs = nrOfClosingBrs THEN Returns("module", currentIndex)
    ELSE RightScan(tree, currentIndex + 1, ign, nrOfClosingBrs, nrOfOpeningBrs, FALSE)

\* where findRightContext(tree, start, ignore) returns
RightReturn(tree, start, ign) ==
    IF start + 1 < Len(tree) THEN RightScan(tree, start + 1, ign, 0, 0, TRUE)
    ELSE Returns("emptyModule", -1)

findRightContext(tree, start, ign) == ContextOf(tree, RightReturn(tree, start, ign))

(***************************************************************************)
(* Rule.                                                                   *)
(***************************************************************************)
TYPE_OL == 0
TYPE_L1L == 1
TYPE_R1L == 2
TYPE_2L == 3

\* the list `keys` that checkCondition and getReplacement build for the rule type
Keys(rule) ==
    CASE rule.ruleType = TYPE_OL -> rule.symParam
      [] rule.ruleType = TYPE_L1L -> rule.left_context.param \o rule.symParam
      [] rule.ruleType = TYPE_R1L -> rule.symParam \o rule.right_context.param
      [] rule.ruleType = TYPE_2L ->
            rule.left_context.param \o rule.symParam \o rule.right_context.param

\* the list `values`; reading right_context.param raises AttributeError when
\* right_context is None, which NeedsRight(rule) /\ right_context = NoneValue tells
Values(rule, left_context, mod, right_context) ==
    CASE rule.ruleType = TYPE_OL -> mod.param
      [] rule.ruleType = TYPE_L1L -> left_context.param \o mod.param
      [] rule.ruleType = TYPE_R1L -> mod.param \o right_context.param
      [] rule.ruleType = TYPE_2L -> left_context.param \o mod.param \o right_context.param

NeedsRight(rule) == rule.ruleType \in {TYPE_R1L, TYPE_2L}

\* what checkCondition returns or raises for the value of the condition
Checked(value) == [raised |-> IF IsRaised(value) THEN "Exception" ELSE "", value |-> value]

\* checkCondition that takes every rule for unconditional
checkCondition_unconditional(rule, left_context, mod, right_context) ==
    [raised |-> "", value |-> Bool(TRUE)]

\* checkCondition returns a number (True is 1), or raises: "AttributeError"
\* when it reads the parameters of a right context that is None, "Exception"
\* when the evaluation of the condition raises
checkCondition(rule, left_context, mod, right_context) ==
    IF rule.condition = << >> THEN [raised |-> "", value |-> Bool(TRUE)]
    ELSE IF NeedsRight(rule) /\ right_context = NoneValue
    THEN [raised |-> "AttributeError", value |-> Raised]
    ELSE Checked(Evaluate(rule.condition,
                          Dict(Keys(rule), Values(rule, left_context, mod, right_context))))

\* isApplicable for a module of the predecessor symbol, cond being what
\* checkCondition returned or raised
Applicable(rule, left_context, right_context, cond) ==
    IF cond.raised # "" THEN cond.raised
    ELSE IF ~Truthy(cond.value) THEN "False"
    ELSE IF NeedsRight(rule) /\ right_context = NoneValue THEN "AttributeError"
    ELSE IF NeedsRight(rule) /\ rule.right_context.symbol # right_context.symbol
    THEN "False"
    ELSE IF /\ rule.ruleType \in {TYPE_L1L, TYPE_2L}
            /\ rule.left_context.symbol # left_context.symbol
    THEN "False"
    ELSE "True"

\* isApplicable returns "True" or "False", or raises "AttributeError" or
\* "Exception".  `and` evaluates its operands from left to right and stops at
\* the first false one: the condition is checked first, then the symbol of the
\* right context is read, then that of the left context
isApplicable(rule, left_context, mod, right_context) ==
    IF rule.predecessorSymbol # mod.symbol THEN "False"
    ELSE Applicable(rule, left_context, right_context,
                    checkCondition(rule, left_context, mod, right_context))

\* cumulative after k rounds of the loop: ((0 + probs[0]) + ...) + probs[k - 1],
\* each sum rounded to a float
RECURSIVE Cumulative(_, _)
Cumulative(probs, k) == IF k = 0 THEN Zero(1) ELSE Add(Cumulative(probs, k - 1), probs[k])

\* the loop `for i in range(0, len(self.probs))` from round k on, entered with
\* the value cumulative has then: the first index (from 1) at which cumulative,
\* with probs[k - 1] added, exceeds choice; 0 when there is none
RECURSIVE ChosenIndexFrom(_, _, _, _)
ChosenIndexFrom(probs, choice, k, cumulative) ==
    IF k > Len(probs) THEN 0
    ELSE IF Less(choice, Add(cumulative, probs[k])) THEN k
    ELSE ChosenIndexFrom(probs, choice, k + 1, Add(cumulative, probs[k]))

\* the selection with the comparison cumulative >= choice: the first index
\* whose cumulative probability reaches choice
ChosenIndex_reaches(probs, choice) ==
    IF \E k \in 1..Len(probs) : ~Less(Cumulative(probs, k), choice)
    THEN CHOOSE k \in 1..Len(probs) :
             /\ ~Less(Cumulative(probs, k), choice)
             /\ \A j \in 1..(k - 1) : Less(Cumulative(probs, j), choice)
    ELSE 0

\* the index the loop assigns, from 1; 0 when it assigns none, where the code
\* reads `index` before it was ever assigned
ChosenIndex(probs, choice) == ChosenIndexFrom(probs, choice, 1, Zero(1))

\* what getReplacement returns or raises for the modules it evaluated
Replacement(replacement) ==
    IF \E k \in 1..Len(replacement) : \E j \in 1..Len(replacement[k].param) :
           IsRaised(replacement[k].param[j])
    THEN [raised |-> "Exception", replacement |-> << >>]
    ELSE [raised |-> "", replacement |-> replacement]

\* the loop `for elem in currentRule`: every parameter of every module of the
\* successor is evaluated with new_dict
Instance(currentRule, new_dict) ==
    Replacement(Tuple([k \in 1..Len(currentRule) |->
                          Module(currentRule[k].symbol,
                                 Tuple([j \in 1..Len(currentRule[k].param) |->
                                           Evaluate(currentRule[k].param[j], new_dict)]))]))

\* getReplacement once index is chosen (0 when the loop assigned none), with
\* new_dict the dictionary the loop over the successor builds
Replace(rule, right_context, index, new_dict) ==
    IF index = 0 THEN [raised |-> "UnboundLocalError", replacement |-> << >>]
    ELSE IF /\ (IF rule.isStochastic THEN rule.successor[index] ELSE rule.successor) # << >>
            /\ NeedsRight(rule) /\ right_context = NoneValue
    THEN [raised |-> "AttributeError", replacement |-> << >>]
    ELSE Instance(IF rule.isStochastic THEN rule.successor[index] ELSE rule.successor,
                  new_dict)

\* getReplacement that leaves out the last module of the successor
getReplacement_one_short(rule, left_context, mod, right_context, defs, choice) ==
    LET index == IF rule.isStochastic THEN ChosenIndex(rule.probs, choice) ELSE 1
        currentRule == IF rule.isStochastic THEN rule.successor[index] ELSE rule.successor
        keys == Keys(rule) \o [j \in 1..Len(defs) |-> defs[j][1]]
        values == Values(rule, left_context, mod, right_context)
                  \o [j \in 1..Len(defs) |-> defs[j][2]]
        new_dict == Dict(keys, values)
        replacement ==
            [k \in 1..(Len(currentRule) - 1) |->
                Module(currentRule[k].symbol,
                       [j \in 1..Len(currentRule[k].param) |->
                            Evaluate(currentRule[k].param[j], new_dict)])]
    IN  IF index = 0 THEN [raised |-> "UnboundLocalError", replacement |-> << >>]
        ELSE IF currentRule # << >> /\ NeedsRight(rule) /\ right_context = NoneValue
        THEN [raised |-> "AttributeError", replacement |-> << >>]
        ELSE IF \E k \in 1..Len(replacement) : \E j \in 1..Len(replacement[k].param) :
                    IsRaised(replacement[k].param[j])
        THEN [raised |-> "Exception", replacement |-> << >>]
        ELSE [raised |-> "", replacement |-> replacement]

\* getReplacement, with `choice` the number random() returns when the rule is
\* stochastic: the replacement modules, or raised # "".  The keys and values
\* are read inside the loop over the modules of the successor, so a right
\* context that is None raises for a successor with a module only
getReplacement(rule, left_context, mod, right_context, defs, choice) ==
    Replace(rule, right_context,
            IF rule.isStochastic THEN ChosenIndex(rule.probs, choice) ELSE 1,
            Dict(Keys(rule) \o [j \in 1..Len(defs) |-> defs[j][1]],
                 Values(rule, left_context, mod, right_context)
                     \o [j \in 1..Len(defs) |-> defs[j][2]]))

(***************************************************************************)
(* LSystem.                                                                *)
(***************************************************************************)
\* rule k with what isApplicable returned or raised for it, or what the loop
\* finds from the next rule on when it returned False
Found(k, verdict, later) ==
    IF verdict = "False" THEN later ELSE [rule |-> k, verdict |-> verdict]

\* the `for rule in self.productionRules` loop from rule k on: the first rule
\* whose isApplicable does not return False, with what it returned or raised;
\* rule 0 when every rule returned False
RECURSIVE FindRule(_, _, _, _, _)
FindRule(rules, k, left_context, mod, right_context) ==
    IF k > Len(rules) THEN [rule |-> 0, verdict |-> "False"]
    ELSE Found(k, isApplicable(rules[k], left_context, mod, right_context),
               FindRule(rules, k + 1, left_context, mod, right_context))

\* the draw recorded for a position at which random() was not called
NoDraw == Float(-1, P52, -52)

\* the number of random() calls of a pass of the loop: getReplacement makes
\* one when the rule it is called for is stochastic
Drawn(body) == IF body.draw = NoDraw THEN 0 ELSE 1

\* the pass at index pos that found rule k applicable: repl is what
\* getReplacement returned or raised
Replaced(pos, k, repl, draw) ==
    [pos |-> pos, rule |-> k, raised |-> repl.raised, out |-> repl.replacement,
     draw |-> draw]

\* the pass at index pos with what the loop over the rules found
Rewritten(pos, rules, defs, choice, mod, left_context, right_context, found) ==
    IF found.rule = 0 THEN
        [pos |-> pos, rule |-> 0, raised |-> "", out |-> <<mod>>, draw |-> NoDraw]
    ELSE IF found.verdict # "True" THEN
        [pos |-> pos, rule |-> found.rule, raised |-> found.verdict, out |-> << >>,
         draw |-> NoDraw]
    ELSE Replaced(pos, found.rule,
                  getReplacement(rules[found.rule], left_context, mod, right_context,
                                 defs, choice),
                  IF rules[found.rule].isStochastic THEN choice ELSE NoDraw)

\* the pass at index pos for the module mod between its two contexts
Rewrite(pos, rules, defs, choice, mod, left_context, right_context) ==
    Rewritten(pos, rules, defs, choice, mod, left_context, right_context,
              FindRule(rules, 1, left_context, mod, right_context))

\* the loop body that appends the module before it looks for a rule, so that a
\* rewritten module stays in the word in front of its replacement
LoopBody_keeps_module(wrd, pos, rules, ign, defs, choice) ==
    LET mod == wrd[pos + 1]
        left_context == findLeftContext(wrd, pos, ign)
        right_context == findRightContext(wrd, pos, ign)
        found == FindRule(rules, 1, left_context, mod, right_context)
        repl == getReplacement(rules[found.rule], left_context, mod, right_context,
                               defs, choice)
    IN  IF found.rule = 0 THEN
            [pos |-> pos, rule |-> 0, raised |-> "", out |-> <<mod>>, draw |-> NoDraw]
        ELSE IF found.verdict # "True" THEN
            [pos |-> pos, rule |-> found.rule, raised |-> found.verdict, out |-> << >>,
             draw |-> NoDraw]
        ELSE [pos |-> pos, rule |-> found.rule, raised |-> repl.raised,
              out |-> <<mod>> \o repl.replacement,
              draw |-> IF rules[found.rule].isStochastic THEN choice ELSE NoDraw]

\* one pass of the body of nextGeneration's for loop, at index pos of wrd:
\* what it adds to new_word, or the exception that ends the call
LoopBody(wrd, pos, rules, ign, defs, choice) ==
    Rewrite(pos, rules, defs, choice, wrd[pos + 1], findLeftContext(wrd, pos, ign),
            findRightContext(wrd, pos, ign))

(***************************************************************************)
(* The L-systems the model constructs: those of testLSystems.py and        *)
(* LSystems_examples.py, the scenarios of the specification, and small     *)
(* rule tables that make several rules compete at one position.            *)
(***************************************************************************)
\* testLSystems.py: axiom "F + + F + + F", productions ["F?F - F + + F - F"], ignore left at its default []
KochSystem ==
    [axiom |->
        <<"F", " ", "+", " ", "+", " ", "F", " ", "+", " ", "+", " ", "F">>,
     productions |-> <<
        <<"F", "?", "F", " ", "-", " ", "F", " ", "+", " ", "+", " ", "F",
          " ", "-", " ", "F">>>>,
     ignore |-> IgnoreList(<< >>),
     definitions |-> << >>]

\* run_test(4): axiom "F", one bracketed production, ignore ""
PlantSystem ==
    [axiom |->
        <<"F">>,
     productions |-> <<
        <<"F", "?", "F", " ", "F", " ", "-", " ", "[", " ", "-", " ", "F",
          " ", "+", " ", "F", " ", "+", " ", "F", " ", "]", " ", "+", " ",
          "[", " ", "+", " ", "F", " ", "-", " ", "F", " ", "-", " ", "F",
          " ", "]">>>>,
     ignore |-> IgnoreStr(<< >>),
     definitions |-> << >>]

\* run_test(5): axiom "F(1,0)", two conditional parametric productions, ignore ""
TriangleSystem ==
    [axiom |->
        <<"F", "(", "1", ",", "0", ")">>,
     productions |-> <<
        <<"F", "(", "x", ",", "t", ")", ":", "t", "=", "=", "0", "?", "F",
          "(", "x", "*", "0", ".", "3", ",", "2", ")", " ", "+", " ", "F",
          "(", "x", "*", "0", ".", "4", "5", "8", ",", "1", ")", " ", "-",
          " ", "-", " ", "F", "(", "x", "*", "0", ".", "4", "5", "8", ",",
          "1", ")", " ", "+", " ", "F", "(", "x", "*", "0", ".", "7", ",",
          "0", ")">>,
        <<"F", "(", "x", ",", "t", ")", ":", "t", ">", "0", "?", "F", "(",
          "x", ",", "t", "-", "1", ")">>>>,
     ignore |-> IgnoreStr(<< >>),
     definitions |-> << >>]

\* run_test(7): axiom "F 1 F 1 F 1", eight 2L productions and two 0L ones, ignore "+-F"
ContextSystem ==
    [axiom |->
        <<"F", " ", "1", " ", "F", " ", "1", " ", "F", " ", "1">>,
     productions |-> <<
        <<"0", "<", "0", ">", "0", "?", "1">>,
        <<"0", "<", "0", ">", "1", "?", "1", " ", "[", " ", "-", " ", "F",
          " ", "1", " ", "F", " ", "1", " ", "]">>,
        <<"0", "<", "1", ">", "0", "?", "1">>,
        <<"0", "<", "1", ">", "1", "?", "1">>,
        <<"1", "<", "0", ">", "0", "?", "0">>,
        <<"1", "<", "0", ">", "1", "?", "1", " ", "F", " ", "1">>,
        <<"1", "<", "1", ">", "0", "?", "1">>,
        <<"1", "<", "1", ">", "1", "?", "0">>,
        <<"+", "?", "-">>,
        <<"-", "?", "+">>>>,
     ignore |-> IgnoreStr(<<"+", "-", "F">>),
     definitions |-> << >>]

\* run_test(8): axiom "F", one stochastic production of three bracketed alternatives, ignore ""
StochasticSystem ==
    [axiom |->
        <<"F">>,
     productions |-> <<
        <<"F", "?", "0", ".", "3", "3", ";", "F", " ", "[", " ", "+", " ",
          "F", " ", "]", " ", "F", " ", "[", " ", "-", " ", "F", " ", "]",
          " ", "F", ";", "0", ".", "3", "3", ";", "F", " ", "[", " ", "+",
          " ", "F", " ", "]", " ", "F", ";", "0", ".", "3", "4", ";", "F",
          " ", "[", " ", "-", " ", "F", " ", "]", " ", "F">>>>,
     ignore |-> IgnoreStr(<< >>),
     definitions |-> << >>]

\* axiom "X", productions ["Y?Z"]: no production has the symbol of any module
IdentitySystem ==
    [axiom |->
        <<"X">>,
     productions |-> <<
        <<"Y", "?", "Z">>>>,
     ignore |-> IgnoreList(<< >>),
     definitions |-> << >>]

\* several productions with one predecessor symbol: conditional and unconditional, 0L and 1L
PrioritySystem ==
    [axiom |->
        <<"A", "(", "1", ")", " ", "A", "(", "0", ")", " ", "B", " ", "C">>,
     productions |-> <<
        <<"A", "(", "x", ")", ":", "x", ">", "0", "?", "B", "(", "x", ")">>,
        <<"A", "(", "x", ")", "?", "A", "(", "x", "+", "1", ")", " ", "C">>,
        <<"A", "(", "x", ")", "?", "D">>,
        <<"C", "<", "B", "?", "E">>,
        <<"B", "?", "F", " ", "B">>,
        <<"B", "?", "G">>,
        <<"B", ">", "C", "?", "H">>>>,
     ignore |-> IgnoreList(<< >>),
     definitions |-> << >>]

\* bracketed productions whose successors are balanced, one of them with a left context
BranchSystem ==
    [axiom |->
        <<"A">>,
     productions |-> <<
        <<"A", "?", "A", " ", "[", " ", "B", " ", "]">>,
        <<"A", "<", "B", "?", "[", " ", "A", " ", "]", " ", "B">>>>,
     ignore |-> IgnoreList(<< >>),
     definitions |-> << >>]

\* axiom "A f", productions ["A>B?X"], ignore "f": the module A has only ignored modules to its right
NoRightSystem ==
    [axiom |->
        <<"A", " ", "f">>,
     productions |-> <<
        <<"A", ">", "B", "?", "X">>>>,
     ignore |-> IgnoreStr(<<"f">>),
     definitions |-> << >>]

\* axiom "A f", productions ["A>B?X", "A?Y", "A?Z"], ignore ["f"]
NoRightPrioritySystem ==
    [axiom |->
        <<"A", " ", "f">>,
     productions |-> <<
        <<"A", ">", "B", "?", "X">>,
        <<"A", "?", "Y">>,
        <<"A", "?", "Z">>>>,
     ignore |-> IgnoreList(<<<<"f">>>>),
     definitions |-> << >>]

\* axiom "[ ]", productions ["]?F"]: a production whose predecessor is a bracket
BracketRewriteSystem ==
    [axiom |->
        <<"[", " ", "]">>,
     productions |-> <<
        <<"]", "?", "F">>>>,
     ignore |-> IgnoreList(<< >>),
     definitions |-> << >>]

\* axiom "A(1)", productions ["A(x)?A(x+c)"], definitions [["x", 5], ["c", 2]]:
\* a definition with the name of a formal parameter, and one with another name
ShadowSystem ==
    [axiom |->
        <<"A", "(", "1", ")">>,
     productions |-> <<
        <<"A", "(", "x", ")", "?", "A", "(", "x", "+", "c", ")">>>>,
     ignore |-> IgnoreList(<< >>),
     definitions |-> <<<<<<"x">>, Frac(5, 1)>>, <<<<"c">>, Frac(2, 1)>>>>]

\* axiom "B A(1)", productions ["B?C", "A(x)?A(x+y)"]: the successor of the
\* second production names y, which nothing binds
UnboundNameSystem ==
    [axiom |->
        <<"B", " ", "A", "(", "1", ")">>,
     productions |-> <<
        <<"B", "?", "C">>,
        <<"A", "(", "x", ")", "?", "A", "(", "x", "+", "y", ")">>>>,
     ignore |-> IgnoreList(<< >>),
     definitions |-> << >>]

\* axiom "A B(7)", productions ["A(x)<B(y)?C(x)"]: the left context pattern
\* has one formal parameter, the module A of the word has none
ArityShiftSystem ==
    [axiom |->
        <<"A", " ", "B", "(", "7", ")">>,
     productions |-> <<
        <<"A", "(", "x", ")", "<", "B", "(", "y", ")", "?", "C", "(", "x", ")">>>>,
     ignore |-> IgnoreList(<< >>),
     definitions |-> << >>]

\* axiom "F", productions ["F?0.5;F F;0.2;B"]: probabilities that sum to 0.7
UnnormalisedSystem ==
    [axiom |->
        <<"F">>,
     productions |-> <<
        <<"F", "?", "0", ".", "5", ";", "F", " ", "F", ";", "0", ".", "2", ";", "B">>>>,
     ignore |-> IgnoreList(<< >>),
     definitions |-> << >>]

\* axiom "A", productions ["B(y)<A:y>0?C", "A?D"]: a left-context production
\* with a condition on the parameter of its context, met where no left
\* context is
ContextConditionSystem ==
    [axiom |->
        <<"A">>,
     productions |-> <<
        <<"B", "(", "y", ")", "<", "A", ":", "y", ">", "0", "?", "C">>,
        <<"A", "?", "D">>>>,
     ignore |-> IgnoreList(<< >>),
     definitions |-> << >>]

\* axiom "A(1) B(2) C(3)", productions ["A(x)<B(y)>C(z):z>x?B(x+y*z)",
\* "B(y)<C(z):z>y?C(z-y)", "A(x)>B(y):y>x?A(y-x)"]: one production of each
\* context kind, whose condition and successor name the parameters of the
\* contexts
BindingSystem ==
    [axiom |->
        <<"A", "(", "1", ")", " ", "B", "(", "2", ")", " ", "C", "(", "3", ")">>,
     productions |-> <<
        <<"A", "(", "x", ")", "<", "B", "(", "y", ")", ">", "C", "(", "z", ")", ":", "z", ">", "x", "?", "B", "(", "x", "+", "y", "*", "z", ")">>,
        <<"B", "(", "y", ")", "<", "C", "(", "z", ")", ":", "z", ">", "y", "?", "C", "(", "z", "-", "y", ")">>,
        <<"A", "(", "x", ")", ">", "B", "(", "y", ")", ":", "y", ">", "x", "?", "A", "(", "y", "-", "x", ")">>>>,
     ignore |-> IgnoreList(<< >>),
     definitions |-> << >>]

\* axiom "", productions ["?F G", "F?", "G?0.5;;0.5;G G"]: an empty axiom, and
\* productions with an empty predecessor, an empty successor and an empty
\* stochastic alternative
EmptyTextSystem ==
    [axiom |->
        << >>,
     productions |-> <<
        <<"?", "F", " ", "G">>,
        <<"F", "?">>,
        <<"G", "?", "0", ".", "5", ";", ";", "0", ".", "5", ";", "G", " ", "G">>>>,
     ignore |-> IgnoreList(<< >>),
     definitions |-> << >>]

\* axiom "A(-1) A(1e1)\n", productions ["A(x):x<0?A(0-x)"]: parameters that
\* float() reads with a sign and an exponent, and an axiom that ends with a
\* newline
SignedSystem ==
    [axiom |->
        <<"A", "(", "-", "1", ")", " ", "A", "(", "1", "e", "1", ")", "\n">>,
     productions |-> <<
        <<"A", "(", "x", ")", ":", "x", "<", "0", "?", "A", "(", "0", "-", "x", ")">>>>,
     ignore |-> IgnoreList(<< >>),
     definitions |-> << >>]

\* axiom "F", productions ["F?0.5;A;1e-17;B;0.5;C"]: the second probability is
\* positive and lost in rounding, 0.5 + 1e-17 is the float 0.5, so the first
\* two cumulative sums are equal
AbsorbedSystem ==
    [axiom |->
        <<"F">>,
     productions |-> <<
        <<"F", "?", "0", ".", "5", ";", "A", ";", "1", "e", "-", "1", "7", ";", "B", ";",
          "0", ".", "5", ";", "C">>>>,
     ignore |-> IgnoreList(<< >>),
     definitions |-> << >>]

\* axiom "F", productions ["F?0.5;F F;0.5"]: a stochastic production with a
\* probability more than alternatives, for which LSystem(...) raises
OddPiecesSystem ==
    [axiom |->
        <<"F">>,
     productions |-> <<
        <<"F", "?", "0", ".", "5", ";", "F", " ", "F", ";", "0", ".", "5">>>>,
     ignore |-> IgnoreList(<< >>),
     definitions |-> << >>]

Systems ==
    {KochSystem, PlantSystem, TriangleSystem, ContextSystem, StochasticSystem,
     IdentitySystem, PrioritySystem, BranchSystem, NoRightSystem,
     NoRightPrioritySystem, BracketRewriteSystem, ShadowSystem, UnboundNameSystem,
     ArityShiftSystem, UnnormalisedSystem, ContextConditionSystem, BindingSystem,
     EmptyTextSystem, SignedSystem, AbsorbedSystem, OddPiecesSystem}

\* the numbers random() returns in the model, all in [0, 1)
Draws == {Frac(0, 1), Frac(1, 2), Frac(33, 50), Frac(9, 10)}

\* no context lookup has been made; index is the index of the module a lookup
\* returned, -1 when it returned the empty module or None
NoQuery == [side |-> "none", start |-> 0, index |-> -1, result |-> emptyModule]

(***************************************************************************)
(* LSystem.__init__ and LSystem.nextGeneration.                            *)
(***************************************************************************)
\* LSystem(axiom, productions, ignore, definitions) returns an object: float()
\* raised for no parameter of the axiom and stringToRule for no production
Constructs(sys) ==
    /\ \A k \in 1..Len(stringToAxiom(sys.axiom)) :
           \A j \in 1..Len(stringToAxiom(sys.axiom)[k].param) :
               ~IsRaised(stringToAxiom(sys.axiom)[k].param[j])
    /\ \A k \in 1..Len(sys.productions) :
           "raised" \notin DOMAIN stringToRule(sys.productions[k])

\* LSystem(axiom, productions, ignore, definitions)
LSystem(sys) ==
    /\ Constructs(sys)
    /\ word = stringToAxiom(sys.axiom)
    /\ productionRules =
           [k \in 1..Len(sys.productions) |-> stringToRule(sys.productions[k])]
    /\ ignore = sys.ignore
    /\ definitions = sys.definitions

Init ==
    /\ \E sys \in Systems : args = sys /\ LSystem(sys)
    /\ pc = "idle"
    /\ i = 0
    /\ new_word = << >>
    /\ outcome = "none"
    /\ calls = 0
    /\ wordAtCall = << >>
    /\ steps = << >>
    /\ query = NoQuery
    /\ twin = [word |-> word, calls |-> 0, outcome |-> "none"]
    /\ generator = 0

\* a call of nextGeneration starts: new_word = []
nextGeneration_call ==
    /\ pc = "idle"
    /\ calls < MaxCalls
    /\ Len(word) <= MaxWordLen
    /\ pc' = "loop"
    /\ i' = 0
    /\ new_word' = << >>
    /\ outcome' = "running"
    /\ calls' = calls + 1
    /\ wordAtCall' = word
    /\ steps' = << >>
    /\ UNCHANGED <<args, word, productionRules, ignore, definitions, query, twin, generator>>

\* the loop that puts the replacement of position i in front of what the
\* earlier positions emitted (new_word = replacement + new_word)
nextGeneration_loop_prepends ==
    /\ pc = "loop"
    /\ i < Len(word)
    /\ \E choice \in Draws :
         LET body == LoopBody(word, i, productionRules, ignore, definitions, choice)
         IN  /\ steps' = Append(steps, body)
             /\ generator' = generator + Drawn(body)
             /\ IF body.raised # ""
                THEN /\ pc' = "idle"
                     /\ outcome' = "raised"
                     /\ UNCHANGED <<i, new_word>>
                ELSE /\ new_word' = body.out \o new_word
                     /\ i' = i + 1
                     /\ UNCHANGED <<pc, outcome>>
    /\ UNCHANGED <<args, word, productionRules, ignore, definitions, calls, wordAtCall,
                   query, twin>>

\* the loop rewriting the word in place: the contexts and the rule of position
\* i are read from the modules already emitted followed by the rest of the word
nextGeneration_loop_in_place ==
    /\ pc = "loop"
    /\ i < Len(word)
    /\ \E choice \in Draws :
         LET body == [LoopBody(new_word \o SubSeq(word, i + 1, Len(word)), Len(new_word),
                               productionRules, ignore, definitions, choice)
                      EXCEPT !.pos = i]
         IN  /\ steps' = Append(steps, body)
             /\ generator' = generator + Drawn(body)
             /\ IF body.raised # ""
                THEN /\ pc' = "idle"
                     /\ outcome' = "raised"
                     /\ UNCHANGED <<i, new_word>>
                ELSE /\ new_word' = new_word \o body.out
                     /\ i' = i + 1
                     /\ UNCHANGED <<pc, outcome>>
    /\ UNCHANGED <<args, word, productionRules, ignore, definitions, calls, wordAtCall,
                   query, twin>>

\* the loop building the new word in self.word itself: when a pass raises, the
\* modules emitted so far are what self.word holds
nextGeneration_loop_keeps_partial ==
    /\ pc = "loop"
    /\ i < Len(word)
    /\ \E choice \in Draws :
         LET body == LoopBody(word, i, productionRules, ignore, definitions, choice)
         IN  /\ steps' = Append(steps, body)
             /\ generator' = generator + Drawn(body)
             /\ IF body.raised # ""
                THEN /\ pc' = "idle"
                     /\ outcome' = "raised"
                     /\ word' = new_word
                     /\ UNCHANGED <<i, new_word>>
                ELSE /\ new_word' = new_word \o body.out
                     /\ i' = i + 1
                     /\ UNCHANGED <<pc, outcome, word>>
    /\ UNCHANGED <<args, productionRules, ignore, definitions, calls, wordAtCall,
                   query, twin>>

\* the pass of the for loop with a getReplacement that appends the names of
\* the definitions to the key list in place (keys += ...), which for a rule
\* without context is the rule's own symParam
nextGeneration_loop_extends_keys ==
    /\ pc = "loop"
    /\ i < Len(word)
    /\ \E choice \in Draws :
         LET body == LoopBody(word, i, productionRules, ignore, definitions, choice)
         IN  /\ steps' = Append(steps, body)
             /\ generator' = generator + Drawn(body)
             /\ IF body.raised # ""
                THEN /\ pc' = "idle"
                     /\ outcome' = "raised"
                     /\ UNCHANGED <<i, new_word, productionRules>>
                ELSE /\ new_word' = new_word \o body.out
                     /\ i' = i + 1
                     /\ productionRules' =
                            IF body.rule # 0 /\ productionRules[body.rule].ruleType = TYPE_OL
                            THEN [productionRules EXCEPT ![body.rule].symParam =
                                      @ \o [j \in 1..Len(definitions) |-> definitions[j][1]]]
                            ELSE productionRules
                     /\ UNCHANGED <<pc, outcome>>
    /\ UNCHANGED <<args, word, ignore, definitions, calls, wordAtCall, query, twin>>

\* one pass of the for loop: position i of self.word is rewritten into
\* new_word, or an exception leaves the call and self.word is what it was
nextGeneration_loop ==
    /\ pc = "loop"
    /\ i < Len(word)
    /\ \E choice \in Draws :
         \E body \in {LoopBody(word, i, productionRules, ignore, definitions, choice)} :
             /\ steps' = Append(steps, body)
             /\ generator' = generator + Drawn(body)
             /\ IF body.raised # ""
                THEN /\ pc' = "idle"
                     /\ outcome' = "raised"
                     /\ UNCHANGED <<i, new_word>>
                ELSE /\ new_word' = new_word \o body.out
                     /\ i' = i + 1
                     /\ UNCHANGED <<pc, outcome>>
    /\ UNCHANGED <<args, word, productionRules, ignore, definitions, calls, wordAtCall,
                   query, twin>>

\* the loop is over: self.word = new_word; return(self.word)
nextGeneration_return ==
    /\ pc = "loop"
    /\ i = Len(word)
    /\ word' = new_word
    /\ pc' = "idle"
    /\ outcome' = "returned"
    /\ UNCHANGED <<args, productionRules, ignore, definitions, i, new_word, calls,
                   wordAtCall, steps, query, twin, generator>>

Next == nextGeneration_call \/ nextGeneration_loop \/ nextGeneration_return

Spec == Init /\ [][Next]_vars

(***************************************************************************)
(* Two LSystem objects constructed from the same arguments.  The second    *)
(* makes its nextGeneration calls between those of the first (the code has *)
(* one thread, so no call starts while another is in its loop) and never   *)
(* more of them than the first has made.  Neither                          *)
(* LSystem nor Rule takes a seed or a random source: getReplacement calls  *)
(* random() of the random module, so what a call draws is the next numbers *)
(* of the generator of the process, whatever they are.                     *)
(***************************************************************************)
\* the ways a whole call of nextGeneration on the word wrd can end, new_word
\* being acc before the pass at index pos: one for each sequence of numbers
\* random() can return; word is self.word after the call and drawn the
\* number of random() calls made
RECURSIVE nextGeneration(_, _, _, _, _, _, _)
nextGeneration(wrd, pos, acc, drawn, rules, ign, defs) ==
    IF pos = Len(wrd) THEN {[outcome |-> "returned", word |-> acc, drawn |-> drawn]}
    ELSE UNION {IF body.raised # ""
                THEN {[outcome |-> "raised", word |-> wrd, drawn |-> drawn + Drawn(body)]}
                ELSE nextGeneration(wrd, pos + 1, acc \o body.out, drawn + Drawn(body),
                                    rules, ign, defs) :
                body \in {LoopBody(wrd, pos, rules, ign, defs, choice) : choice \in Draws}}

\* a whole call of nextGeneration on the second LSystem; its random() calls
\* are calls of the same generator
twin_nextGeneration ==
    /\ pc = "idle"
    /\ twin.calls < calls
    /\ Len(twin.word) <= MaxTwinWordLen
    /\ \E end \in nextGeneration(twin.word, 0, << >>, 0, productionRules, ignore,
                                  definitions) :
           /\ twin' = [word |-> end.word, calls |-> twin.calls + 1, outcome |-> end.outcome]
           /\ generator' = generator + end.drawn
    /\ UNCHANGED <<args, word, productionRules, ignore, definitions, pc, i, new_word,
                   outcome, calls, wordAtCall, steps, query>>

NextPair == Next \/ twin_nextGeneration

SpecPair == Init /\ [][NextPair]_vars

(***************************************************************************)
(* The context locator on its own: findLeftContext and findRightContext    *)
(* applied to every tree of at most MaxTreeLen modules over four symbols,  *)
(* and to the longer trees ExampleTrees, at every position.                *)
(***************************************************************************)
TreeSymbols == {<<"A">>, <<"f">>, <<"[">>, <<"]">>}

ExampleTrees ==
    {stringToAxiom(<<"A", " ", "[", " ", "B", " ", "]", " ", "C">>),
     stringToAxiom(<<"A", " ", "[", " ", "]", " ", "[", " ", "]", " ", "C">>),
     stringToAxiom(<<"A", " ", "[", " ", "[", " ", "B", " ", "]", " ", "C", " ", "]", " ", "D">>),
     stringToAxiom(<<"[", " ", "A", " ", "[", " ", "B", " ", "]", " ", "]", " ", "[", " ", "C", " ", "]", " ", "D">>),
     stringToAxiom(<<"A", " ", "[", " ", "[", " ", "B">>),
     stringToAxiom(<<"A", " ", "[", " ", "[", " ", "B", " ", "]", " ", "C">>),
     stringToAxiom(<<"A", " ", "+", "-", " ", "B">>),
     stringToAxiom(<<"A", " ", "-", " ", "-", "F", " ", "[", " ", "+", " ", "F", "+", " ", "]", " ", "B">>)}

Trees ==
    UNION {[1..n -> {Module(sym, << >>) : sym \in TreeSymbols}] : n \in 0..MaxTreeLen}
    \cup ExampleTrees

\* no LSystem is constructed: the locator is given a tree and an ignore value
NoSystem == [axiom |-> << >>, productions |-> << >>, ignore |-> IgnoreList(<< >>),
             definitions |-> << >>]

\* ignore = [], ignore = "f", ignore = ["[", "]"], and the ignore = "+-F" of
\* run_test(7)
TreeIgnores ==
    {IgnoreList(<< >>), IgnoreStr(<<"f">>), IgnoreList(<<<<"[">>, <<"]">>>>),
     IgnoreStr(<<"+", "-", "F">>)}

InitCtx ==
    /\ word \in Trees
    /\ ignore \in TreeIgnores
    /\ args = NoSystem
    /\ productionRules = << >>
    /\ definitions = << >>
    /\ pc = "idle"
    /\ i = 0
    /\ new_word = << >>
    /\ outcome = "none"
    /\ calls = 0
    /\ wordAtCall = << >>
    /\ steps = << >>
    /\ query = NoQuery
    /\ twin = [word |-> << >>, calls |-> 0, outcome |-> "none"]
    /\ generator = 0

\* findLeftContext(word, start, ignore)
LookLeft ==
    /\ \E start \in 0..(Len(word) - 1) :
         query' = [side |-> "left", start |-> start,
                   index |-> LeftReturn(word, start, ignore).index,
                   result |-> findLeftContext(word, start, ignore)]
    /\ UNCHANGED <<args, word, productionRules, ignore, definitions, pc, i, new_word,
                   outcome, calls, wordAtCall, steps, twin, generator>>

\* findRightContext(word, start, ignore)
LookRight ==
    /\ \E start \in 0..(Len(word) - 1) :
         query' = [side |-> "right", start |-> start,
                   index |-> RightReturn(word, start, ignore).index,
                   result |-> findRightContext(word, start, ignore)]
    /\ UNCHANGED <<args, word, productionRules, ignore, definitions, pc, i, new_word,
                   outcome, calls, wordAtCall, steps, twin, generator>>

NextCtx == LookLeft \/ LookRight

SpecCtx == InitCtx /\ [][NextCtx]_vars

(***************************************************************************)
(* Vocabulary of the properties.                                           *)
(***************************************************************************)
Symbols(w) == [k \in 1..Len(w) |-> w[k].symbol]

Count(sym, w) == Cardinality({k \in 1..Len(w) : w[k].symbol = sym})

\* a call of nextGeneration has returned and no other is under way
Returned == pc = "idle" /\ outcome = "returned"

\* the context a rule's pattern is compared with: the empty module where the
\* scan located no module
Located(context) == IF context = NoneValue THEN emptyModule ELSE context

\* the predecessor symbol and the context symbols the rule kind requires are
\* those of the module and of its located contexts
SymbolsMatch(rule, left_context, mod, right_context) ==
    /\ rule.predecessorSymbol = mod.symbol
    /\ rule.ruleType \in {TYPE_L1L, TYPE_2L} => rule.left_context.symbol = left_context.symbol
    /\ rule.ruleType \in {TYPE_R1L, TYPE_2L} =>
           rule.right_context.symbol = right_context.symbol

\* the value of the rule's condition under the binding of its formal names
ConditionValue(rule, left_context, mod, right_context) ==
    Evaluate(rule.condition, Dict(Keys(rule), Values(rule, left_context, mod, right_context)))

\* the rule is applicable at position pos of the word w: predecessor symbol,
\* required context symbols and condition are all satisfied
RuleApplies(rule, w, pos, ign) ==
    LET left_context == findLeftContext(w, pos, ign)
        right_context == Located(findRightContext(w, pos, ign))
    IN  /\ SymbolsMatch(rule, left_context, w[pos + 1], right_context)
        /\ \/ rule.condition = << >>
           \/ /\ ~IsRaised(ConditionValue(rule, left_context, w[pos + 1], right_context))
              /\ Truthy(ConditionValue(rule, left_context, w[pos + 1], right_context))

\* the rule is not applicable there: a symbol differs or the condition is false
\* (a condition that cannot be evaluated makes the rule neither)
RuleDoesNotApply(rule, w, pos, ign) ==
    LET left_context == findLeftContext(w, pos, ign)
        right_context == Located(findRightContext(w, pos, ign))
    IN  \/ ~SymbolsMatch(rule, left_context, w[pos + 1], right_context)
        \/ /\ rule.condition # << >>
           /\ ~IsRaised(ConditionValue(rule, left_context, w[pos + 1], right_context))
           /\ ~Truthy(ConditionValue(rule, left_context, w[pos + 1], right_context))

\* the rules applicable at position pos of w, by their place in the table
ApplicableRules(w, pos) ==
    {r \in 1..Len(productionRules) : RuleApplies(productionRules[r], w, pos, ignore)}

\* the symbol sequences the rule's successor (one of its alternatives, for a
\* stochastic rule) can emit
TemplateSymbols(rule) ==
    IF rule.isStochastic THEN {Symbols(rule.successor[a]) : a \in 1..Len(rule.successor)}
    ELSE {Symbols(rule.successor)}

(***************************************************************************)
(* C1.  Identity fallback: at every position of the current word at which  *)
(* no rule of the table is applicable, nextGeneration emits exactly the    *)
(* module of that position and raises no error; with axiom X and the       *)
(* single rule Y?Z the word is X after any number of generations.          *)
(***************************************************************************)
IdentityFallback ==
    /\ \A k \in 1..Len(steps) :
          (\A r \in 1..Len(productionRules) :
               RuleDoesNotApply(productionRules[r], wordAtCall, steps[k].pos, ignore))
          => /\ steps[k].raised = ""
             /\ steps[k].out = <<wordAtCall[steps[k].pos + 1]>>
    /\ args = IdentitySystem => word = <<Module(<<"X">>, << >>)>>

\* the system of axiom X and rule Y?Z has derived two generations
IdentityFallbackCase ==
    /\ args = IdentitySystem /\ calls = 2 /\ Returned
    /\ steps[1].rule = 0
    /\ word = <<Module(<<"X">>, << >>)>>

(***************************************************************************)
(* C2.  Rule-order priority: at a position at which two or more rules are  *)
(* applicable (and every rule of the table is either applicable or not),   *)
(* nextGeneration emits the successor of the earliest applicable rule of   *)
(* the productions list and of no later one.                               *)
(***************************************************************************)
RuleOrderPriority ==
    \A k \in 1..Len(steps) :
        LET applicable == ApplicableRules(wordAtCall, steps[k].pos)
        IN  /\ Cardinality(applicable) >= 2
            /\ \A r \in 1..Len(productionRules) :
                   \/ r \in applicable
                   \/ RuleDoesNotApply(productionRules[r], wordAtCall, steps[k].pos, ignore)
            => /\ steps[k].raised = ""
               /\ steps[k].rule \in applicable
               /\ \A r \in applicable : steps[k].rule <= r
               /\ Symbols(steps[k].out) \in TemplateSymbols(productionRules[steps[k].rule])

\* a call has returned in which two rules or more were applicable at a position
RuleOrderPriorityCase ==
    /\ Returned
    /\ \E k \in 1..Len(steps) :
           /\ Cardinality(ApplicableRules(wordAtCall, steps[k].pos)) >= 2
           /\ steps[k].rule \in ApplicableRules(wordAtCall, steps[k].pos)

RECURSIVE Concatenation(_)
Concatenation(outs) ==
    IF Len(outs) = 0 THEN << >> ELSE Head(outs) \o Concatenation(Tail(outs))

\* what the passes of the loop made so far have emitted, in the order of the passes
Emitted == Concatenation([k \in 1..Len(steps) |-> steps[k].out])

(***************************************************************************)
(* C3.  Parallel substitution: within one call of nextGeneration the       *)
(* contexts, the rule and the replacement of every position are computed   *)
(* from the word W the call started with, never from modules the call has  *)
(* emitted, and the word the call returns is the concatenation over        *)
(* i = 0..n-1 of the replacements computed from (W, i).                    *)
(***************************************************************************)
ParallelSubstitution ==
    /\ pc = "loop" => word = wordAtCall /\ new_word = Emitted
    /\ \A k \in 1..Len(steps) :
           /\ steps[k].pos = k - 1
           /\ steps[k].rule =
                  FindRule(productionRules, 1, findLeftContext(wordAtCall, k - 1, ignore),
                           wordAtCall[k], findRightContext(wordAtCall, k - 1, ignore)).rule
           /\ steps[k] = LoopBody(wordAtCall, k - 1, productionRules, ignore, definitions,
                                  steps[k].draw)
    /\ Returned => Len(steps) = Len(wordAtCall) /\ word = Emitted

\* a call has returned in which a module was rewritten and the module to its
\* right is the predecessor of a left-context rule that would have applied to
\* the rewritten neighbour, and did not apply
ParallelSubstitutionCase ==
    /\ Returned
    /\ \E k \in 2..Len(steps) : \E r \in 1..Len(productionRules) :
           /\ productionRules[r].ruleType = TYPE_L1L
           /\ productionRules[r].predecessorSymbol = wordAtCall[k].symbol
           /\ steps[k - 1].rule # 0
           /\ steps[k - 1].out # << >>
           /\ steps[k - 1].out[Len(steps[k - 1].out)].symbol =
                  productionRules[r].left_context.symbol
           /\ findLeftContext(wordAtCall, k - 1, ignore).symbol #
                  productionRules[r].left_context.symbol
           /\ steps[k].rule # r

KochSuccessor == <<<<"F">>, <<"-">>, <<"F">>, <<"+">>, <<"+">>, <<"F">>, <<"-">>, <<"F">>>>

KochGeneration1 ==
    KochSuccessor \o <<<<"+">>, <<"+">>>> \o KochSuccessor \o <<<<"+">>, <<"+">>>>
    \o KochSuccessor

(***************************************************************************)
(* C4.  Koch snowflake side: with axiom F + + F + + F, the rule            *)
(* F?F - F + + F - F and an empty ignore set, the word after one           *)
(* nextGeneration is F - F + + F - F + + F - F + + F - F + + F - F + + F   *)
(* - F: every F is replaced by the successor sequence, every + and - is    *)
(* copied unchanged, in the original order.                                *)
(***************************************************************************)
KochFirstGeneration ==
    (args = KochSystem /\ calls = 1 /\ Returned) =>
        /\ Symbols(word) = KochGeneration1
        /\ \A k \in 1..Len(word) : word[k].param = << >>
        /\ \A k \in 1..Len(wordAtCall) :
               IF wordAtCall[k].symbol = <<"F">>
               THEN Symbols(steps[k].out) = KochSuccessor
               ELSE steps[k].out = <<wordAtCall[k]>>

KochFirstGenerationCase ==
    /\ args = KochSystem /\ calls = 1 /\ Returned
    /\ Len(word) = 28

(***************************************************************************)
(* C5 as stated: with axiom F and the single rule                          *)
(* F?F F - [ - F + F + F ] + [ + F - F - F ], the word after one           *)
(* nextGeneration has length 19 modules.                                   *)
(***************************************************************************)
PlantLength19 ==
    (args = PlantSystem /\ calls = 1 /\ Returned) => Len(word) = 19

(***************************************************************************)
(* C5 amended: with that axiom and that rule the word after one            *)
(* nextGeneration has length 20 modules, the 20 modules of the successor.  *)
(***************************************************************************)
PlantLength20 ==
    (args = PlantSystem /\ calls = 1 /\ Returned) =>
        /\ Len(word) = 20
        /\ word = productionRules[1].successor

PlantFirstGenerationCase ==
    /\ args = PlantSystem /\ calls = 1 /\ Returned
    /\ Len(wordAtCall) = 1
    /\ steps[1].rule = 1

(***************************************************************************)
(* Bracket counts of a system: its axiom and every successor template      *)
(* (every alternative of a stochastic rule) have as many [ as ].           *)
(***************************************************************************)
BracketsEqual(w) == Count(<<"[">>, w) = Count(<<"]">>, w)

Templates(rule) ==
    IF rule.isStochastic THEN {rule.successor[a] : a \in 1..Len(rule.successor)}
    ELSE {rule.successor}

BalancedSystem ==
    /\ BracketsEqual(stringToAxiom(args.axiom))
    /\ \A r \in 1..Len(productionRules) :
           \A template \in Templates(productionRules[r]) : BracketsEqual(template)

NoBracketPredecessor ==
    \A r \in 1..Len(productionRules) :
        productionRules[r].predecessorSymbol \notin {<<"[">>, <<"]">>}

(***************************************************************************)
(* C6 as stated: bracket balance is an invariant of derivation: from axiom *)
(* F with the rule F?F F - [ - F + F + F ] + [ + F - F - F ], and          *)
(* generally whenever the axiom and every successor template have as many  *)
(* [ as ], the word after any number of nextGeneration calls contains as   *)
(* many [ modules as ] modules.                                            *)
(***************************************************************************)
BracketBalance ==
    (args = PlantSystem \/ BalancedSystem) => BracketsEqual(word)

(***************************************************************************)
(* C6 amended: from axiom F with the plant rule, and generally whenever    *)
(* the axiom and every successor template have as many [ as ] and no       *)
(* rule's predecessor symbol is [ or ], the word after any number of       *)
(* nextGeneration calls contains as many [ modules as ] modules.           *)
(***************************************************************************)
BracketBalanceOfUnrewrittenBrackets ==
    /\ args = PlantSystem => BracketsEqual(word)
    /\ (BalancedSystem /\ NoBracketPredecessor) => BracketsEqual(word)

\* a second generation has been derived and bracketed branches were added in it
BracketBalanceCase ==
    /\ BalancedSystem /\ NoBracketPredecessor
    /\ Returned /\ calls = 2
    /\ Count(<<"[">>, wordAtCall) >= 1
    /\ Count(<<"[">>, word) > Count(<<"[">>, wordAtCall)

Plain(symbol) == Module(<<symbol>>, << >>)

F(x, t) == Module(<<"F">>, <<x, t>>)

TriangleSuccessor(x) ==
    <<F(Mul(x, Frac(3, 10)), Frac(2, 1)), Plain("+"), F(Mul(x, Frac(229, 500)), Frac(1, 1)),
      Plain("-"), Plain("-"), F(Mul(x, Frac(229, 500)), Frac(1, 1)), Plain("+"),
      F(Mul(x, Frac(7, 10)), Frac(0, 1))>>

(***************************************************************************)
(* C7.  Parametric rewriting: with axiom F(1,0) and the rules              *)
(* F(x,t):t==0?F(x*0.3,2) + F(x*0.458,1) - - F(x*0.458,1) + F(x*0.7,0) and *)
(* F(x,t):t>0?F(x,t-1), generation 1 is exactly                            *)
(* F(0.3,2) + F(0.458,1) - - F(0.458,1) + F(0.7,0); a module F(x,t) is     *)
(* rewritten by the first rule iff t == 0 and by the second iff t > 0, and *)
(* each successor parameter is its expression evaluated with x and t bound *)
(* to the module's actual parameters.                                      *)
(***************************************************************************)
TriangleRewriting ==
    args = TriangleSystem =>
        /\ (calls = 1 /\ Returned) =>
               word = <<F(Frac(3, 10), Frac(2, 1)), Plain("+"), F(Frac(229, 500), Frac(1, 1)),
                        Plain("-"), Plain("-"), F(Frac(229, 500), Frac(1, 1)), Plain("+"),
                        F(Frac(7, 10), Frac(0, 1))>>
        /\ \A k \in 1..Len(steps) :
               wordAtCall[k].symbol = <<"F">> =>
                   LET x == wordAtCall[k].param[1]
                       t == wordAtCall[k].param[2]
                   IN  /\ steps[k].raised = ""
                       /\ steps[k].rule = 1 <=> t = Frac(0, 1)
                       /\ steps[k].rule = 2 <=> Less(Frac(0, 1), t)
                       /\ steps[k].rule = 1 => steps[k].out = TriangleSuccessor(x)
                       /\ steps[k].rule = 2 => steps[k].out = <<F(x, Sub(t, Frac(1, 1)))>>

\* two generations have been derived: the first by the rule of t == 0 alone,
\* the second by both rules
TriangleRewritingCase ==
    /\ args = TriangleSystem /\ calls = 2 /\ Returned
    /\ \E k \in 1..Len(steps) : steps[k].rule = 1
    /\ \E k \in 1..Len(steps) : steps[k].rule = 2

(***************************************************************************)
(* Bracket structure of a tree, by indices counted from 0 as in the code.  *)
(***************************************************************************)
IsBracket(m) == m.symbol \in {<<"[">>, <<"]">>}

\* the number of [ less the number of ] among tree[a], ..., tree[b]
Depth(tree, a, b) ==
    Cardinality({k \in a..b : tree[k + 1].symbol = <<"[">>})
    - Cardinality({k \in a..b : tree[k + 1].symbol = <<"]">>})

\* every ] of the tree closes a [ before it and every [ is closed
BalancedWord(tree) ==
    /\ Depth(tree, 0, Len(tree) - 1) = 0
    /\ \A k \in 0..(Len(tree) - 1) : Depth(tree, 0, k) >= 0

\* tree[a], ..., tree[b] are one or more complete balanced blocks [ ... ] side
\* by side, with at most ignored modules between them
Blocks(tree, a, b, ign) ==
    /\ \E k \in a..b : tree[k + 1].symbol = <<"[">>
    /\ Depth(tree, a, b) = 0
    /\ \A k \in a..b :
           /\ Depth(tree, a, k) >= 0
           /\ IsBracket(tree[k + 1]) \/ In(tree[k + 1].symbol, ign) \/ Depth(tree, a, k) >= 1

\* the scans treat [ and ] as brackets: neither is a symbol to ignore
BracketsNotIgnored == ~In(<<"[">>, ignore) /\ ~In(<<"]">>, ignore)

\* the module at index j is neither ignored nor a bracket, and the modules
\* between it and position start are complete balanced blocks
BlocksBetween(j, start) ==
    /\ ~IsBracket(word[j + 1])
    /\ ~In(word[j + 1].symbol, ignore)
    /\ Blocks(word, j + 1, start - 1, ignore)

(***************************************************************************)
(* C8.  findLeftContext skips every balanced [ ... ] block between the     *)
(* position and its left neighbour: when the modules immediately to the    *)
(* left of position i are one or more complete balanced blocks preceded by *)
(* a non-ignored non-bracket module m, the result is m, never a module     *)
(* inside a skipped block (in A [ B ] C the left context of C is A).       *)
(* As stated, for every ignore value.                                      *)
(***************************************************************************)
LeftContextSkipsBlocks ==
    query.side = "left" =>
        \A j \in 0..(query.start - 2) :
            BlocksBetween(j, query.start) =>
                /\ query.index = j
                /\ query.result = word[j + 1]

(***************************************************************************)
(* C8 amended: when neither [ nor ] is a symbol to ignore,                 *)
(* findLeftContext skips every balanced [ ... ] block between the position *)
(* and its left neighbour: when the modules immediately to the left of     *)
(* position i are one or more complete balanced blocks preceded by a       *)
(* non-ignored non-bracket module m, the result is m, never a module       *)
(* inside a skipped block.  (An ignored bracket is passed over before it   *)
(* is counted, so the modules of its block are met as if on the path.)     *)
(***************************************************************************)
LeftContextSkipsUnignoredBlocks ==
    (query.side = "left" /\ BracketsNotIgnored) =>
        \A j \in 0..(query.start - 2) :
            BlocksBetween(j, query.start) =>
                /\ query.index = j
                /\ query.result = word[j + 1]

\* the left context was looked up across two blocks or more, or across a
\* block that holds modules or blocks
LeftContextSkipsBlocksCase ==
    /\ query.side = "left" /\ BracketsNotIgnored
    /\ \E j \in 0..(query.start - 2) :
           /\ BlocksBetween(j, query.start)
           /\ query.start - j - 1 >= 3
           /\ query.index = j

(***************************************************************************)
(* C9.  For a bracket-balanced word and any position i, findRightContext   *)
(* never returns a module that lies inside a [-opened side branch starting *)
(* to the right of i, also when side branches are nested (in               *)
(* A [ [ B ] C ] D the right context of A is neither B nor C).             *)
(***************************************************************************)
RightContextOutsideSideBranches ==
    (/\ query.side = "right" /\ query.index >= 0
     /\ BalancedWord(word) /\ BracketsNotIgnored) =>
        ~ \E b \in (query.start + 1)..(query.index - 1) :
              /\ word[b + 1].symbol = <<"[">>
              /\ \A k \in b..query.index : Depth(word, b, k) >= 1

\* the right context was found beyond a side branch
RightContextOutsideSideBranchesCase ==
    /\ query.side = "right" /\ query.index >= 0
    /\ BalancedWord(word) /\ BracketsNotIgnored
    /\ \E b \in (query.start + 1)..(query.index - 1) : word[b + 1].symbol = <<"[">>

(***************************************************************************)
(* C10.  For a bracket-balanced word and a position i inside a branch,     *)
(* findRightContext never returns a module located after the ] that closes *)
(* the branch enclosing i, whether that ] is met at the first non-ignored  *)
(* step or after side branches were skipped (in [ A [ B ] ] [ C ] D the    *)
(* right context of A is not D).                                           *)
(***************************************************************************)
RightContextInsideEnclosingBranch ==
    (/\ query.side = "right" /\ query.index >= 0
     /\ BalancedWord(word) /\ BracketsNotIgnored) =>
        \A k \in (query.start + 1)..query.index : Depth(word, query.start + 1, k) >= 0

\* the right context of the last module of a branch was looked up: the ] that
\* closes the branch is the first module met
RightContextInsideEnclosingBranchCase ==
    /\ query.side = "right" /\ query.result = emptyModule
    /\ BalancedWord(word) /\ BracketsNotIgnored
    /\ query.start + 1 < Len(word)
    /\ word[query.start + 2].symbol = <<"]">>
    /\ ~IsBracket(word[query.start + 1])

(***************************************************************************)
(* C11.  findLeftContext and findRightContext return the empty module      *)
(* (symbol "", no parameters) whenever the scan ends without returning a   *)
(* neighbour: at position 0 for the left scan, at the last position for    *)
(* the right scan, and when every remaining module is ignored, is a        *)
(* bracket or is skipped because the bracket counters differ; the result   *)
(* is always a module.                                                     *)
(***************************************************************************)
ContextIsAlwaysAModule ==
    query.side \in {"left", "right"} =>
        /\ query.result # NoneValue
        /\ query.index = -1 => query.result = emptyModule

\* the right context of the last module and the left context of the first
\* were looked up, or a left scan ran out over brackets and ignored modules
ContextIsAlwaysAModuleCase ==
    /\ query.result = emptyModule
    /\ \/ query.side = "right" /\ query.start = Len(word) - 1
       \/ query.side = "left" /\ query.start >= 2

(***************************************************************************)
(* Bindings of a rule at a position: the formal names of its patterns      *)
(* paired with the parameters of the actual modules, pattern by pattern.   *)
(***************************************************************************)
\* the patterns the rule's kind uses have as many formal parameters as the
\* module, and the located context modules, have parameters
ArityMatches(rule, left_context, mod, right_context) ==
    /\ Len(rule.symParam) = Len(mod.param)
    /\ rule.ruleType \in {TYPE_L1L, TYPE_2L} =>
           Len(rule.left_context.param) = Len(left_context.param)
    /\ rule.ruleType \in {TYPE_R1L, TYPE_2L} =>
           Len(rule.right_context.param) = Len(right_context.param)

\* the successor sequence that was used at a step: the rule's successor, the
\* alternative picked by the step's draw for a stochastic rule
UsedSuccessor(step) ==
    LET rule == productionRules[step.rule]
    IN  IF rule.isStochastic THEN rule.successor[ChosenIndex(rule.probs, step.draw)]
        ELSE rule.successor

\* the contexts of the position a step handled
LeftOf(step) == findLeftContext(wordAtCall, step.pos, ignore)

RightOf(step) == Located(findRightContext(wordAtCall, step.pos, ignore))

\* the positional names and values of the rule used at a step
PositionalKeys(step) == Keys(productionRules[step.rule])

PositionalValues(step) ==
    Values(productionRules[step.rule], LeftOf(step), wordAtCall[step.pos + 1], RightOf(step))

\* a step at which a rule was accepted and its replacement emitted
Accepted(step) == step.rule # 0 /\ step.raised = ""

\* the modules of a successor sequence with every parameter expression
\* evaluated under the binding d
Instantiate(successor, d) ==
    [k \in 1..Len(successor) |->
        Module(successor[k].symbol,
               [j \in 1..Len(successor[k].param) |-> Evaluate(successor[k].param[j], d)])]

(***************************************************************************)
(* C12.  When a global definition has the name of a formal parameter of    *)
(* the accepted rule (of its predecessor or of a context pattern), the     *)
(* successor expressions are evaluated with that name bound to the actual  *)
(* positional parameter value: the positional name shadows the definition. *)
(***************************************************************************)
PositionalShadowsDefinition ==
    \A k \in 1..Len(steps) :
        (/\ Accepted(steps[k])
         /\ ArityMatches(productionRules[steps[k].rule], LeftOf(steps[k]),
                         wordAtCall[k], RightOf(steps[k]))
         /\ \E d \in 1..Len(definitions) : \E p \in 1..Len(PositionalKeys(steps[k])) :
                definitions[d][1] = PositionalKeys(steps[k])[p]) =>
            steps[k].out =
                Instantiate(UsedSuccessor(steps[k]),
                            Dict([d \in 1..Len(definitions) |-> definitions[d][1]]
                                     \o PositionalKeys(steps[k]),
                                 [d \in 1..Len(definitions) |-> definitions[d][2]]
                                     \o PositionalValues(steps[k])))

\* a rule was accepted one of whose formal parameters has the name of a
\* definition, and its successor uses another definition too
PositionalShadowsDefinitionCase ==
    /\ Returned /\ Len(definitions) >= 2
    /\ Accepted(steps[1])
    /\ \E d \in 1..Len(definitions) : definitions[d][1] \in
           {PositionalKeys(steps[1])[p] : p \in 1..Len(PositionalKeys(steps[1]))}

(***************************************************************************)
(* C13.  If nextGeneration fails (for example a condition or successor     *)
(* expression names something that is not bound), the call raises an error *)
(* and the current word is exactly the word held before the call, so a     *)
(* later read or a retry sees the prior generation; no partially built     *)
(* word is ever stored.                                                    *)
(***************************************************************************)
FailurePreservesWord ==
    /\ pc = "loop" => word = wordAtCall
    /\ \A k \in 1..Len(steps) :
           steps[k].raised # "" => k = Len(steps) /\ pc = "idle" /\ outcome = "raised"
    /\ outcome = "raised" =>
           /\ Len(steps) >= 1 /\ steps[Len(steps)].raised # ""
           /\ word = wordAtCall

\* a call failed on a name that nothing binds after it had emitted modules,
\* and so did the retry
FailurePreservesWordCase ==
    /\ outcome = "raised" /\ calls = 2
    /\ steps[Len(steps)].raised = "Exception"
    /\ new_word # << >>
    /\ word = stringToAxiom(args.axiom)

(***************************************************************************)
(* C14.  When a rule is evaluated against a module, or a located context   *)
(* module, whose number of actual parameters differs from the number of    *)
(* formal parameters of the rule's corresponding pattern, nextGeneration   *)
(* reports an error; it never proceeds with a binding in which a formal    *)
(* name is missing or is paired with a value of another pattern.           *)
(***************************************************************************)
ArityMismatchIsReported ==
    \A k \in 1..Len(steps) :
        (/\ steps[k].rule # 0
         /\ ~ArityMatches(productionRules[steps[k].rule], LeftOf(steps[k]),
                          wordAtCall[steps[k].pos + 1], RightOf(steps[k]))) =>
            /\ steps[k].raised # ""
            /\ steps[k].out = << >>

\* the successor of a rule was evaluated at a position where a pattern of the
\* rule has more formal parameters than the actual module has parameters
ArityMismatchIsReportedCase ==
    \E k \in 1..Len(steps) :
        /\ steps[k].rule # 0
        /\ productionRules[steps[k].rule].ruleType = TYPE_L1L
        /\ Len(productionRules[steps[k].rule].left_context.param) > Len(LeftOf(steps[k]).param)
        /\ productionRules[steps[k].rule].left_context.symbol = LeftOf(steps[k]).symbol

\* the system has a stochastic production
IsStochastic == \E k \in 1..Len(productionRules) : productionRules[k].isStochastic

\* both L-systems are between calls and have made the same number of calls
SameGeneration == pc = "idle" /\ twin.calls = calls

\* two L-systems without stochastic productions, constructed from the same
\* arguments, hold equal words and equal outcomes after the same number of calls
DeterminismWithoutDraws ==
    (SameGeneration /\ ~IsStochastic) => (twin.word = word /\ twin.outcome = outcome)

(***************************************************************************)
(* C15.  Two L-systems constructed from the same axiom, productions,       *)
(* ignore and definitions hold equal words after the same number of calls  *)
(* of nextGeneration: always when no production is stochastic, and for     *)
(* stochastic productions whenever both were given the same seed through   *)
(* the engine's seed interface.  The engine has no seed interface and      *)
(* every draw is random() of the process-wide generator, so nothing        *)
(* relates the draws of the two systems.                                   *)
(***************************************************************************)
Determinism == SameGeneration => twin.word = word

\* both systems rewrote their words twice and hold the same changed word
DeterminismCase ==
    /\ SameGeneration
    /\ calls = 2
    /\ outcome = "returned" /\ twin.outcome = "returned"
    /\ twin.word = word
    /\ word # stringToAxiom(args.axiom)

\* both systems of a stochastic production made one call and differ
DeterminismStochasticCase ==
    /\ SameGeneration
    /\ IsStochastic
    /\ calls = 1
    /\ outcome = "returned" /\ twin.outcome = "returned"
    /\ twin.word # word

\* the probabilities of a rule are all strictly positive
AllPositive(probs) == \A j \in 1..Len(probs) : Less(Frac(0, 1), probs[j])

\* the probabilities of a rule sum to 1: the float the selection loop
\* accumulates is 1.0, which is within every tolerance (0.33 + 0.33 + 0.34 is
\* 1.0; the sum 0.7 of UnnormalisedSystem is within none)
SumsToOne(probs) == Cumulative(probs, Len(probs)) = Frac(1, 1)

(***************************************************************************)
(* C16.  Every stochastic rule the L-system holds has probabilities that   *)
(* are all strictly positive, that sum to 1, and as many of them as it has *)
(* successor alternatives; a production whose probabilities are otherwise  *)
(* is rejected by the constructor and never stored.                        *)
(***************************************************************************)
ProbabilityVectorsValid ==
    \A k \in 1..Len(productionRules) :
        productionRules[k].isStochastic =>
            /\ AllPositive(productionRules[k].probs)
            /\ SumsToOne(productionRules[k].probs)
            /\ Len(productionRules[k].probs) = Len(productionRules[k].successor)

\* a stochastic rule of valid probabilities is held and has been accepted
ProbabilityVectorsValidCase ==
    /\ \E k \in 1..Len(steps) :
           /\ Accepted(steps[k])
           /\ productionRules[steps[k].rule].isStochastic
           /\ AllPositive(productionRules[steps[k].rule].probs)
           /\ SumsToOne(productionRules[steps[k].rule].probs)
           /\ Len(productionRules[steps[k].rule].probs) = 3

\* a stochastic rule whose probabilities do not sum to 1 is held
UnnormalisedRuleStored ==
    \E k \in 1..Len(productionRules) :
        /\ productionRules[k].isStochastic
        /\ ~SumsToOne(productionRules[k].probs)

(***************************************************************************)
(* C17.  nextGeneration changes only the current word: after construction  *)
(* and across every sequence of nextGeneration calls, returning or         *)
(* raising, the rule table (order, predecessors, contexts, conditions,     *)
(* successors, probabilities), the ignore set and the definitions are what *)
(* the constructor made of its arguments.                                  *)
(***************************************************************************)
ConfigurationUnchanged ==
    /\ productionRules =
           [k \in 1..Len(args.productions) |-> stringToRule(args.productions[k])]
    /\ ignore = args.ignore
    /\ definitions = args.definitions

\* a call that rewrote the word with a rule and definitions, then a second call
ConfigurationUnchangedCase ==
    /\ calls = 2
    /\ pc = "idle"
    /\ definitions # << >>
    /\ word # stringToAxiom(args.axiom)
    /\ \E k \in 1..Len(steps) : Accepted(steps[k])

\* a call that rewrote the word followed by a call that raised
ConfigurationUnchangedAfterFailureCase ==
    /\ calls = 2
    /\ outcome = "raised"
    /\ word # stringToAxiom(args.axiom)

\* the binding getReplacement evaluates the successor of a step's rule under
Binding(step) ==
    Dict(PositionalKeys(step) \o [d \in 1..Len(definitions) |-> definitions[d][1]],
         PositionalValues(step) \o [d \in 1..Len(definitions) |-> definitions[d][2]])

\* a step at which getReplacement of a stochastic rule was called
StochasticStep(step) ==
    /\ step.rule # 0
    /\ productionRules[step.rule].isStochastic
    /\ RuleApplies(productionRules[step.rule], wordAtCall, step.pos, ignore)

\* alternative j is the first whose cumulative probability exceeds the draw u
FirstExceeding(probs, u, j) ==
    /\ Less(u, Cumulative(probs, j))
    /\ \A m \in 1..(j - 1) : ~Less(u, Cumulative(probs, m))

\* the step emitted the modules of alternative j of its rule, and nothing else
UsesAlternative(step, j) ==
    /\ step.raised = ""
    /\ step.out = Instantiate(productionRules[step.rule].successor[j], Binding(step))

\* the selection restricted to rules whose probabilities sum to 1
StochasticSelectionOfNormalisedRules ==
    \A k \in 1..Len(steps) :
        (StochasticStep(steps[k]) /\ SumsToOne(productionRules[steps[k].rule].probs)) =>
            \E j \in 1..Len(productionRules[steps[k].rule].probs) :
                /\ FirstExceeding(productionRules[steps[k].rule].probs, steps[k].draw, j)
                /\ UsesAlternative(steps[k], j)

(***************************************************************************)
(* C18.  When a stochastic rule with probabilities p_1..p_k is accepted    *)
(* and the draw is u in [0,1), getReplacement uses the alternative of the  *)
(* smallest index j with p_1 + ... + p_j > u: exactly one alternative is   *)
(* used at that position, and there is one for every u in [0,1).           *)
(***************************************************************************)
StochasticSelection ==
    \A k \in 1..Len(steps) :
        StochasticStep(steps[k]) =>
            \E j \in 1..Len(productionRules[steps[k].rule].probs) :
                /\ FirstExceeding(productionRules[steps[k].rule].probs, steps[k].draw, j)
                /\ UsesAlternative(steps[k], j)

\* a stochastic rule was accepted and the draw selected its second alternative
StochasticSelectionCase ==
    \E k \in 1..Len(steps) :
        /\ StochasticStep(steps[k])
        /\ steps[k].draw = Frac(1, 2)
        /\ Len(productionRules[steps[k].rule].probs) = 3
        /\ UsesAlternative(steps[k], 2)
        /\ ~UsesAlternative(steps[k], 1) /\ ~UsesAlternative(steps[k], 3)

\* a stochastic rule was accepted and no cumulative probability exceeds the draw
NoAlternativeCase ==
    \E k \in 1..Len(steps) :
        /\ StochasticStep(steps[k])
        /\ steps[k].raised = "UnboundLocalError"
        /\ \A j \in 1..Len(productionRules[steps[k].rule].probs) :
               ~Less(steps[k].draw, Cumulative(productionRules[steps[k].rule].probs, j))

\* the draw u is exactly the cumulative probability p_1 + ... + p_j
Tie(probs, u, j) ==
    /\ ~Less(u, Cumulative(probs, j))
    /\ ~Less(Cumulative(probs, j), u)

\* C19 as the specification words it: a draw equal to the cumulative
\* probability of alternative j, not the last, selects alternative j
TieFavoursEarlierIndex ==
    \A k \in 1..Len(steps) :
        StochasticStep(steps[k]) =>
            \A j \in 1..(Len(productionRules[steps[k].rule].probs) - 1) :
                Tie(productionRules[steps[k].rule].probs, steps[k].draw, j) =>
                    UsesAlternative(steps[k], j)

(***************************************************************************)
(* C19.  In stochastic selection, when the draw u is exactly equal to a    *)
(* cumulative sum p_1 + ... + p_j with j < k, the comparison is strict     *)
(* (cumulative > u), so alternative j is not selected by that sum: the     *)
(* alternative used is the first whose cumulative sum exceeds u, which is  *)
(* alternative j+1 when the sum that p_(j+1) was added to exceeds u and no *)
(* earlier sum did.  The sums are the floats the loop accumulates: a       *)
(* positive p_(j+1) that is lost in rounding leaves the sum at u.          *)
(***************************************************************************)
TieSelectsNextIndex ==
    \A k \in 1..Len(steps) :
        StochasticStep(steps[k]) =>
            \A j \in 1..(Len(productionRules[steps[k].rule].probs) - 1) :
                (/\ Tie(productionRules[steps[k].rule].probs, steps[k].draw, j)
                 /\ FirstExceeding(productionRules[steps[k].rule].probs,
                                   steps[k].draw, j + 1)) =>
                    UsesAlternative(steps[k], j + 1)

\* a draw equal to the second cumulative probability of a rule of three
\* different alternatives: the third is used, the second is not
TieSelectsNextIndexCase ==
    \E k \in 1..Len(steps) :
        /\ StochasticStep(steps[k])
        /\ Len(productionRules[steps[k].rule].probs) = 3
        /\ Tie(productionRules[steps[k].rule].probs, steps[k].draw, 2)
        /\ Less(Frac(0, 1), productionRules[steps[k].rule].probs[3])
        /\ UsesAlternative(steps[k], 3)
        /\ ~UsesAlternative(steps[k], 2)

\* a draw equal to the first cumulative probability, and a positive second
\* probability that is lost in rounding: the third alternative is used
TieWithAbsorbedProbabilityCase ==
    \E k \in 1..Len(steps) :
        /\ StochasticStep(steps[k])
        /\ Tie(productionRules[steps[k].rule].probs, steps[k].draw, 1)
        /\ Less(Frac(0, 1), productionRules[steps[k].rule].probs[2])
        /\ ~UsesAlternative(steps[k], 2)
        /\ UsesAlternative(steps[k], 3)

\* rule r is a context rule whose predecessor symbol is that of the module a
\* step handled, and a context symbol it requires is not that of the located
\* context
ContextSymbolDiffers(r, step) ==
    /\ productionRules[r].ruleType # TYPE_OL
    /\ productionRules[r].predecessorSymbol = wordAtCall[step.pos + 1].symbol
    /\ ~SymbolsMatch(productionRules[r], LeftOf(step), wordAtCall[step.pos + 1],
                     RightOf(step))

(***************************************************************************)
(* C20.  A rule of kind 1L-left, 1L-right or 2L whose predecessor symbol   *)
(* is that of the module, but one of whose required context symbols        *)
(* differs from that of the located context, is skipped without error and  *)
(* the next rule of the table is tried, whatever its condition and         *)
(* whatever parameters the located (possibly empty) context carries; a     *)
(* context rule is accepted only when the symbols match and the condition  *)
(* is true.                                                                *)
(***************************************************************************)
ContextMismatchSkipsRule ==
    \A k \in 1..Len(steps) :
        /\ \A r \in 1..Len(productionRules) :
               ContextSymbolDiffers(r, steps[k]) => steps[k].rule # r
        /\ (Accepted(steps[k]) /\ productionRules[steps[k].rule].ruleType # TYPE_OL) =>
               RuleApplies(productionRules[steps[k].rule], wordAtCall, steps[k].pos, ignore)

\* a context rule of differing context symbol was passed over and a later
\* rule of the table was accepted at the same position
ContextMismatchSkipsRuleCase ==
    \E k \in 1..Len(steps) : \E r \in 1..Len(productionRules) :
        /\ ContextSymbolDiffers(r, steps[k])
        /\ Accepted(steps[k])
        /\ steps[k].rule > r

\* a left-context rule of differing context symbol ended the call: its
\* condition was evaluated, with the parameters of the context missing,
\* before its context symbol was compared
ConditionBeforeContextCase ==
    \E k \in 1..Len(steps) :
        /\ steps[k].rule # 0
        /\ productionRules[steps[k].rule].ruleType = TYPE_L1L
        /\ ContextSymbolDiffers(steps[k].rule, steps[k])
        /\ steps[k].raised = "Exception"

\* the rule kinds that have a left pattern, and those that have a right one
UsesLeft(rule) == rule.ruleType \in {TYPE_L1L, TYPE_2L}

UsesRight(rule) == rule.ruleType \in {TYPE_R1L, TYPE_2L}

\* the formal names of the patterns the rule kind uses: left pattern,
\* predecessor, right pattern
FormalNames(rule) ==
    (IF UsesLeft(rule) THEN rule.left_context.param ELSE << >>)
        \o rule.symParam
        \o (IF UsesRight(rule) THEN rule.right_context.param ELSE << >>)

\* the parameters of the located left context, of the module and of the
\* located right context, for the patterns the rule kind uses
ActualValues(rule, left_context, mod, right_context) ==
    (IF UsesLeft(rule) THEN left_context.param ELSE << >>)
        \o mod.param
        \o (IF UsesRight(rule) THEN right_context.param ELSE << >>)

\* no name occurs twice in the sequence
Distinct(names) == \A a, b \in 1..Len(names) : names[a] = names[b] => a = b

\* the binding of the j-th formal name of each pattern to the j-th parameter
\* of the module the pattern stands for at the position of a step
PositionalBinding(rule, step) ==
    Dict(FormalNames(rule),
         ActualValues(rule, LeftOf(step), wordAtCall[step.pos + 1], RightOf(step)))

\* that binding with the definitions under it: a definition gives a name its
\* value only where no formal parameter has the name
PositionalBindingOverDefinitions(rule, step) ==
    Dict([d \in 1..Len(definitions) |-> definitions[d][1]] \o FormalNames(rule),
         [d \in 1..Len(definitions) |-> definitions[d][2]]
             \o ActualValues(rule, LeftOf(step), wordAtCall[step.pos + 1], RightOf(step)))

\* rule r has pairwise distinct formal names and its patterns have the arity
\* of the modules they stand for at the position of the step
WellFormedAt(r, step) ==
    /\ Distinct(FormalNames(productionRules[r]))
    /\ ArityMatches(productionRules[r], LeftOf(step), wordAtCall[step.pos + 1],
                    RightOf(step))

\* the condition of rule r is true under the positional binding
ConditionHolds(r, step) ==
    \/ productionRules[r].condition = << >>
    \/ LET value == Evaluate(productionRules[r].condition,
                             PositionalBinding(productionRules[r], step))
       IN  ~IsRaised(value) /\ Truthy(value)

\* rule r was tried at the step and returned False
Rejected(r, step) ==
    /\ r \in 1..Len(productionRules)
    /\ step.rule = 0 \/ r < step.rule

\* every rule that was tried at the step and returned False although its
\* symbols match has a condition that is false under the positional binding
RejectedOnCondition(step) ==
    \A r \in 1..Len(productionRules) :
        (/\ Rejected(r, step)
         /\ WellFormedAt(r, step)
         /\ SymbolsMatch(productionRules[r], LeftOf(step), wordAtCall[step.pos + 1],
                         RightOf(step))) =>
            ~ConditionHolds(r, step)

\* the binding claim on the steps of rules no formal name of which is the
\* name of a definition
PositionalBindingWithoutClash ==
    \A k \in 1..Len(steps) :
        (/\ Accepted(steps[k])
         /\ WellFormedAt(steps[k].rule, steps[k])
         /\ \A d \in 1..Len(definitions) :
                \A p \in 1..Len(FormalNames(productionRules[steps[k].rule])) :
                    definitions[d][1] # FormalNames(productionRules[steps[k].rule])[p]) =>
            /\ ConditionHolds(steps[k].rule, steps[k])
            /\ steps[k].out =
                   Instantiate(UsedSuccessor(steps[k]),
                               PositionalBindingOverDefinitions(
                                   productionRules[steps[k].rule], steps[k]))
            /\ RejectedOnCondition(steps[k])

(***************************************************************************)
(* C21.  For a rule of any kind whose formal parameter names are pairwise  *)
(* distinct and whose patterns have the arity of the modules they stand    *)
(* for, the condition and the successor expressions are evaluated under    *)
(* the binding of the j-th formal name of the left pattern to the j-th     *)
(* parameter of the located left context, of the j-th formal name of the   *)
(* predecessor to the j-th parameter of the module, and of the j-th formal *)
(* name of the right pattern to the j-th parameter of the located right    *)
(* context, for the patterns the rule kind uses.                           *)
(***************************************************************************)
PositionalBindingIsUsed ==
    \A k \in 1..Len(steps) :
        /\ (Accepted(steps[k]) /\ WellFormedAt(steps[k].rule, steps[k])) =>
               /\ ConditionHolds(steps[k].rule, steps[k])
               /\ steps[k].out =
                      Instantiate(UsedSuccessor(steps[k]),
                                  PositionalBindingOverDefinitions(
                                      productionRules[steps[k].rule], steps[k]))
        /\ RejectedOnCondition(steps[k])

\* a production of two contexts was accepted on a condition and with a
\* successor that name the parameters of both contexts, and in the next
\* generation it was rejected because its condition had become false
PositionalBindingIsUsedCase ==
    /\ calls = 2
    /\ Len(steps) >= 2
    /\ Rejected(1, steps[2])
    /\ productionRules[1].ruleType = TYPE_2L
    /\ Len(FormalNames(productionRules[1])) = 3
    /\ WellFormedAt(1, steps[2])
    /\ SymbolsMatch(productionRules[1], LeftOf(steps[2]), wordAtCall[2], RightOf(steps[2]))
    /\ wordAtCall[2].param = <<Frac(7, 1)>>

\* the number of modules the first k passes of the loop emitted
RECURSIVE Offset(_)
Offset(k) == IF k = 0 THEN 0 ELSE Offset(k - 1) + Len(steps[k].out)

\* the word under construction while the loop runs, the word stored once the
\* call has returned
Output == IF pc = "loop" THEN new_word ELSE word

\* the modules emitted for the k-th position lie in the output right after
\* those of the positions before it, in the order of their template
InPlaceOfPosition(k) ==
    /\ Offset(k) <= Len(Output)
    /\ SubSeq(Output, Offset(k - 1) + 1, Offset(k)) = steps[k].out
    /\ Symbols(steps[k].out) =
           IF steps[k].rule = 0 THEN <<wordAtCall[k].symbol>>
           ELSE Symbols(UsedSuccessor(steps[k]))

(***************************************************************************)
(* C22.  Within one call of nextGeneration the output modules appear in    *)
(* strictly increasing order of the input position that produced them: all *)
(* modules emitted for position i precede all modules emitted for position *)
(* i+1, each successor keeping its own order.  The random draws are made   *)
(* in the same order of positions: exactly one for every position at which *)
(* a stochastic rule is accepted, none for a position rewritten by a       *)
(* non-stochastic rule or copied by the identity production.               *)
(***************************************************************************)
PositionOrder ==
    /\ \A k \in 1..Len(steps) : steps[k].pos = k - 1
    /\ (pc = "loop" \/ Returned) =>
           /\ Len(Output) = Offset(Len(steps))
           /\ \A k \in 1..Len(steps) : InPlaceOfPosition(k)
    /\ pc = "loop" => i = Len(steps)
    /\ Returned => Len(steps) = Len(wordAtCall)
    /\ \A k \in 1..Len(steps) :
           IF StochasticStep(steps[k]) THEN steps[k].draw \in Draws
           ELSE steps[k].draw = NoDraw

\* a call has returned that rewrote two positions by a stochastic rule on two
\* different draws, with alternatives of different lengths, and copied a
\* position between them without a draw
PositionOrderCase ==
    /\ Returned
    /\ \E a, b, c \in 1..Len(steps) :
           /\ a < b /\ b < c
           /\ StochasticStep(steps[a]) /\ StochasticStep(steps[c])
           /\ steps[a].draw # steps[c].draw
           /\ Len(steps[a].out) # Len(steps[c].out)
           /\ steps[b].rule = 0 /\ steps[b].draw = NoDraw

\* no prefix of the tree has more ] than [
BalancedPrefix(tree) == \A k \in 0..(Len(tree) - 1) : Depth(tree, 0, k) >= 0

\* the module at index j lies on the path from position start to the root of
\* the bracketed structure: no ] between them closes a branch that holds j
OnPathToRoot(j, start) ==
    \A c \in (j + 1)..(start - 1) : Depth(word, j + 1, c) >= 0

\* the indices left of start of the modules that are neither ignored nor
\* brackets and lie on the path to the root
PathModules(start) ==
    {j \in 0..(start - 1) :
        /\ ~IsBracket(word[j + 1])
        /\ ~In(word[j + 1].symbol, ignore)
        /\ OnPathToRoot(j, start)}

\* the largest index of a nonempty set of indices
Nearest(S) == CHOOSE j \in S : \A k \in S : k <= j

(***************************************************************************)
(* C23.  For a word no prefix of which has more ] than [, and any position *)
(* i, findLeftContext returns the nearest module to the left of i that is  *)
(* neither ignored nor a bracket and lies on the path from i to the root   *)
(* of the bracketed structure: completed sibling branches are skipped and  *)
(* the scan ascends out of every enclosing branch, at any nesting depth    *)
(* (the left context of B in A [ [ B and of C in A [ [ B ] C is A); it     *)
(* returns the empty module only when there is no such module.             *)
(***************************************************************************)
LeftContextIsNearestOnPath ==
    (query.side = "left" /\ BracketsNotIgnored /\ BalancedPrefix(word)) =>
        IF PathModules(query.start) = {}
        THEN query.index = -1 /\ query.result = emptyModule
        ELSE /\ query.index = Nearest(PathModules(query.start))
             /\ query.result = word[query.index + 1]

\* the left context of a module that opens a branch was found outside the
\* branch, past an ignored module
LeftContextIsNearestOnPathCase ==
    /\ query.side = "left" /\ BracketsNotIgnored /\ BalancedPrefix(word)
    /\ query.start < Len(word) /\ ~IsBracket(word[query.start + 1])
    /\ query.index >= 0
    /\ query.index = Nearest(PathModules(query.start))
    /\ query.result = word[query.index + 1]
    /\ Depth(word, query.index + 1, query.start - 1) = 1
    /\ \E c \in (query.index + 1)..(query.start - 1) : In(word[c + 1].symbol, ignore)

\* the position lies two branches deep and the left scan returned the empty
\* module although a module lies on the path to the root
LeftContextTwoBranchesDeepCase ==
    /\ query.side = "left" /\ BracketsNotIgnored /\ BalancedPrefix(word)
    /\ PathModules(query.start) # {}
    /\ Depth(word, Nearest(PathModules(query.start)) + 1, query.start - 1) = 2
    /\ query.index = -1 /\ query.result = emptyModule

\* the symbol is one of the symbols of the ignore set: an item of the list, a
\* character of the string
IsIgnoreSymbol(symbol, ign) == \E k \in 1..Len(ign.v) : ign.v[k] = symbol

\* the ignore set as the list of its symbols
SymbolsOf(ign) == IgnoreList(ign.v)

\* what a scan returns when exactly the symbols of the ignore set are
\* transparent
TransparentScan(side, tree, start, ign) ==
    IF side = "left" THEN findLeftContext(tree, start, SymbolsOf(ign))
    ELSE findRightContext(tree, start, SymbolsOf(ign))

\* the index of the module next to position start on the side of the scan
Neighbour(side, start) == IF side = "left" THEN start - 1 ELSE start + 1

(***************************************************************************)
(* C24.  In both context scans a module is transparent if and only if its  *)
(* symbol is one of the symbols of the ignore set.  A transparent module   *)
(* is never returned as context, changes neither bracket counter and does  *)
(* not clear firstPass (also when its symbol is [ or ]); a module whose    *)
(* symbol is not in the ignore set is never skipped as ignored, also when  *)
(* the symbol has several characters or is a part or a concatenation of    *)
(* symbols of the ignore set.                                              *)
(***************************************************************************)
IgnoreIsMembership ==
    query.side \in {"left", "right"} =>
        /\ query.index >= 0 => ~IsIgnoreSymbol(word[query.index + 1].symbol, ignore)
        /\ \A j \in 0..(Len(word) - 1) :
               (/\ j = Neighbour(query.side, query.start)
                /\ ~IsIgnoreSymbol(word[j + 1].symbol, ignore)
                /\ ~IsBracket(word[j + 1])) =>
                   query.index = j /\ query.result = word[j + 1]
        /\ query.result = TransparentScan(query.side, word, query.start, ignore)

\* a scan passed over modules of the ignore set, a bracket of the ignore set
\* among them, and returned a module behind them
IgnoreIsMembershipCase ==
    /\ query.side \in {"left", "right"}
    /\ query.index >= 0
    /\ IsIgnoreSymbol(<<"[">>, ignore)
    /\ \E j \in 0..(Len(word) - 1) :
           /\ (j - query.start) * (j - query.index) < 0
           /\ word[j + 1].symbol = <<"[">>
    /\ query.result = TransparentScan(query.side, word, query.start, ignore)

\* a scan passed over a module next to the position whose symbol has two
\* characters and is not a symbol of the ignore set
SubstringIgnoredCase ==
    /\ query.side \in {"left", "right"}
    /\ \E j \in 0..(Len(word) - 1) :
           /\ j = Neighbour(query.side, query.start)
           /\ Len(word[j + 1].symbol) = 2
           /\ ~IsIgnoreSymbol(word[j + 1].symbol, ignore)
           /\ query.index # j

\* the successor sequences of a rule: its alternatives when it is stochastic
Alternatives(rule) ==
    IF rule.isStochastic THEN {rule.successor[a] : a \in 1..Len(rule.successor)}
    ELSE {rule.successor}

(***************************************************************************)
(* C25.  The word never shrinks: the word built from the axiom string has  *)
(* at least one module, every parsed successor sequence (every stochastic  *)
(* alternative included) has at least one module, and so the word a        *)
(* successful nextGeneration stores is at least as long as the word before *)
(* the call and is never empty.                                            *)
(***************************************************************************)
WordNeverShrinks ==
    /\ Len(stringToAxiom(args.axiom)) >= 1
    /\ \A r \in 1..Len(productionRules) :
           \A successor \in Alternatives(productionRules[r]) : Len(successor) >= 1
    /\ \A k \in 1..Len(steps) : steps[k].raised = "" => Len(steps[k].out) >= 1
    /\ Len(word) >= 1
    /\ Returned => Len(word) >= Len(wordAtCall)

\* a call has returned in which a production of empty successor text and the
\* empty alternative of a stochastic production were used: each left one
\* module of empty symbol, and the word is as long as it was
WordNeverShrinksCase ==
    /\ Returned
    /\ Len(word) = Len(wordAtCall)
    /\ word # wordAtCall
    /\ \E j, k \in 1..Len(steps) :
           /\ Accepted(steps[j]) /\ ~productionRules[steps[j].rule].isStochastic
           /\ Accepted(steps[k]) /\ productionRules[steps[k].rule].isStochastic
           /\ steps[j].out = <<emptyModule>>
           /\ steps[k].out = <<emptyModule>>

\* a step of the second LSystem: a whole call of its nextGeneration
CallOnTwin == twin'.calls = twin.calls + 1

(***************************************************************************)
(* C26.  L-system instances are independent: however the nextGeneration    *)
(* calls of two instances are interleaved, the words of the first are      *)
(* those it produces alone, also when both have stochastic rules.  No call *)
(* on the second changes the word, the rules, the ignore set or the        *)
(* definitions of the first, nor the random draws the first receives: the  *)
(* generator its next draw comes from is where it was before the call.     *)
(***************************************************************************)
InstancesIndependent ==
    [][CallOnTwin =>
          /\ word' = word
          /\ productionRules' = productionRules
          /\ ignore' = ignore
          /\ definitions' = definitions
          /\ generator' = generator]_vars

\* both instances have made a call that rewrote a module by a stochastic
\* rule: the generator has made one random() call for each of them
InstancesIndependentCase ==
    /\ SameGeneration
    /\ calls = 1
    /\ IsStochastic
    /\ outcome = "returned" /\ twin.outcome = "returned"
    /\ generator = 2

\* the calls of two instances without stochastic rules were interleaved: the
\* generator was never called
InterleavedWithoutDrawsCase ==
    /\ SameGeneration
    /\ calls = 2
    /\ ~IsStochastic
    /\ word # stringToAxiom(args.axiom)
    /\ generator = 0

\* a call on the second instance changes nothing of the first but the
\* generator
CallOnTwinKeepsWordAndRules ==
    [][CallOnTwin =>
          /\ word' = word
          /\ productionRules' = productionRules
          /\ ignore' = ignore
          /\ definitions' = definitions]_vars
====
